---- MODULE Spec2Model ----
(***************************************************************************)
(* Model of the review core of greenlite-code (src/src/ReviewMode.tsx).   *)
(* This part covers the LCS line diff, computeDiff: the split of the two   *)
(* texts into lines, the dynamic-programming table, the backtrack loop     *)
(* and the final reversal of the two row stacks.                           *)
(*                                                                         *)
(* A text is a sequence of characters; NL is the newline character.  A     *)
(* line is a sequence of characters without NL.  A DiffLine is a record    *)
(* with the fields of the DiffLine interface; an optional line number      *)
(* that is absent is modelled by Unset.                                    *)
(***************************************************************************)
EXTENDS Integers, Sequences, FiniteSets, Bags, TLC

\* ------------------------------------------------------------------ bounds
\* Longest text drawn as an input of computeDiff (in characters).
MaxLen == 3

\* ------------------------------------------------------------- characters
NL == "\n"

\* Characters the bounded inputs are written in.
Alphabet == {"a", "b", NL}

\* The texts of the worked example diff("a\nb\nc", "a\nx\nc").
ExampleOld == <<"a", NL, "b", NL, "c">>
ExampleNew == <<"a", NL, "x", NL, "c">>

\* All texts over Alphabet of at most MaxLen characters.
BoundedTexts == UNION {[1..k -> Alphabet] : k \in 0..MaxLen}

\* The inputs of computeDiff that the model explores.
Texts == BoundedTexts \cup {ExampleOld, ExampleNew}

\* An optional line number that is not set (oldLineNum?/newLineNum?).
Unset == 0

\* ---------------------------------------------------------------- helpers
Max(a, b) == IF a >= b THEN a ELSE b

\* Reverse that leaves the array in backtrack order.
MutReverse(s) == s

\* Array.prototype.reverse
Reverse(s) == [k \in 1..Len(s) |-> s[Len(s) + 1 - k]]

\* JsSplit with a split rule that drops a trailing empty piece.
RECURSIVE MutJsSplit(_)
MutJsSplit(text) ==
  IF \A k \in 1..Len(text) : text[k] # NL
  THEN IF text = <<>> THEN <<>> ELSE <<text>>
  ELSE LET p == CHOOSE k \in 1..Len(text) :
                  /\ text[k] = NL
                  /\ \A q \in 1..(k - 1) : text[q] # NL
       IN <<SubSeq(text, 1, p - 1)>> \o MutJsSplit(SubSeq(text, p + 1, Len(text)))

\* String.prototype.split("\n"): cut at every NL; a text with k newlines
\* gives k + 1 lines (the empty text gives the one empty line <<>>).
RECURSIVE JsSplit(_)
JsSplit(text) ==
  IF \A k \in 1..Len(text) : text[k] # NL
  THEN <<text>>
  ELSE LET p == CHOOSE k \in 1..Len(text) :
                  /\ text[k] = NL
                  /\ \A q \in 1..(k - 1) : text[q] # NL
       IN <<SubSeq(text, 1, p - 1)>> \o JsSplit(SubSeq(text, p + 1, Len(text)))

\* SplitLines without the test for the empty string.
MutSplitLines(text) == JsSplit(text)

\* `text ? text.split("\n") : []` : the empty string is falsy and gives no
\* line at all.
SplitLines(text) == IF text = <<>> THEN <<>> ELSE JsSplit(text)

\* BuildTable that carries only the value of the column before on a
\* mismatch (no Math.max with the row above).
MutBuildTable(ol, nl) ==
  LET d[x \in 0..Len(ol), y \in 0..Len(nl)] ==
        IF x = 0 \/ y = 0 THEN 0
        ELSE IF ol[x] = nl[y] THEN d[x - 1, y - 1] + 1
        ELSE d[x, y - 1]
  IN [x \in 0..Len(ol) |-> [y \in 0..Len(nl) |-> d[x, y]]]

\* The LCS table of the two line arrays, filled as the nested for loops do:
\* row 0 and column 0 stay 0.
BuildTable(ol, nl) ==
  LET d[x \in 0..Len(ol), y \in 0..Len(nl)] ==
        IF x = 0 \/ y = 0 THEN 0
        ELSE IF ol[x] = nl[y] THEN d[x - 1, y - 1] + 1
        ELSE Max(d[x - 1, y], d[x, y - 1])
  IN [x \in 0..Len(ol) |-> [y \in 0..Len(nl) |-> d[x, y]]]

\* AddedRight without its line number.
MutAddedRight(txt, y) == [type |-> "added", text |-> txt, oldLineNum |-> Unset, newLineNum |-> Unset]

\* UnchangedLeft numbering the line from 0.
MutUnchangedLeft(txt, x) == [type |-> "unchanged", text |-> txt, oldLineNum |-> x - 1, newLineNum |-> Unset]

\* The object literals pushed by the backtrack loop.
UnchangedLeft(txt, x)  == [type |-> "unchanged", text |-> txt, oldLineNum |-> x, newLineNum |-> Unset]
UnchangedRight(txt, y) == [type |-> "unchanged", text |-> txt, oldLineNum |-> Unset, newLineNum |-> y]
AddedLeft              == [type |-> "added", text |-> <<>>, oldLineNum |-> Unset, newLineNum |-> Unset]
AddedRight(txt, y)     == [type |-> "added", text |-> txt, oldLineNum |-> Unset, newLineNum |-> y]
RemovedLeft(txt, x)    == [type |-> "removed", text |-> txt, oldLineNum |-> x, newLineNum |-> Unset]
RemovedRight           == [type |-> "removed", text |-> <<>>, oldLineNum |-> Unset, newLineNum |-> Unset]

\* ------------------------------------------------------------------ state
VARIABLES
  oldText, newText,      \* the arguments of computeDiff
  oldLines, newLines,    \* the two line arrays
  dp,                    \* the LCS table
  i, j,                  \* the backtrack cursors
  leftStack, rightStack, \* rows in backtrack (reverse) order
  left, right,           \* the returned row sequences
  pc                     \* position in computeDiff

\* syntax.ts: the arguments, locals and results of detectLanguage and
\* tokenizeLine.
VARIABLES
  filePath,              \* the argument of detectLanguage
  line,                  \* the line given to tokenizeLine
  lang,                  \* the language: result of detectLanguage, argument of tokenizeLine
  remaining,             \* the part of the line not yet scanned
  tokens,                \* the tokens pushed by the scan loop
  merged,                \* the tokens after the merge loop
  tpc                    \* position in detectLanguage / tokenizeLine

\* ReviewMode.tsx: the state of the ReviewMode component and of its session's
\* entry of localStorage.
VARIABLES
  files,                 \* the changed files (useState)
  selectedFile,          \* path of the selected file, or Null
  selectedStatus,        \* status of the selected file, or Null
  diff,                  \* the rows of the two panes, or Nothing
  plainContent,          \* the text of the single pane, or Nothing
  pending,               \* the calls of git_file_diff that have not settled
  comments,              \* the comments state when it holds an array
  commentsKind,          \* what the comments state holds: "array", "object" or "null"
  storage,               \* localStorage under commentsKey(cwd)
  quotaExceeded,         \* setItem throws: the quota of localStorage is used up
  selectingSide,         \* "old", "new" or Null
  selectionStart,        \* anchor line of the selection, or NoLine
  selectionEnd,          \* focus line of the selection, or NoLine
  isSelecting,           \* a drag is under way
  commentInput,          \* the text of the comment box
  showCommentInput,      \* the comment box is open
  activeCommentId,       \* id of the comment whose bubble is open, or NoId
  nextId,                \* how many ids crypto.randomUUID() has handed out, plus one
  phase,                 \* "idle", "constructed", "mounted" or "crashed" (a render threw)
  outcome                \* how the last handler call ended: "ok", "returned" or "threw"

\* ReviewMode.tsx: the argument and the locals of buildTree.
VARIABLES
  changed,               \* the argument `files` of buildTree
  root,                  \* the forest built so far
  cursor,                \* the place in `files` of the file the for loop is at
  treePc                 \* position in buildTree

diffVars == <<oldText, newText, oldLines, newLines, dp, i, j,
              leftStack, rightStack, left, right, pc>>
synVars == <<filePath, line, lang, remaining, tokens, merged, tpc>>

revVars == <<files, selectedFile, selectedStatus, diff, plainContent, pending, comments, commentsKind, storage, quotaExceeded,
             selectingSide, selectionStart, selectionEnd, isSelecting,
             commentInput, showCommentInput, activeCommentId, nextId, phase, outcome>>

treeVars == <<changed, root, cursor, treePc>>

vars == <<diffVars, synVars, revVars, treeVars>>

\* `null` of selectedFile, selectedStatus and selectingSide.
Null == "null"

\* `null` of selectionStart, selectionEnd and of a row without line number.
NoLine == 0

\* `null` of activeCommentId.
NoId == 0

\* `null` of diff and plainContent, and a value that is not null.
Nothing == <<>>
Just(v) == <<v>>

\* getItem finds nothing under the key.
Absent == [kind |-> "absent", items |-> <<>>]

\* `null` of the type Language.
NoLanguage == "none"

\* No call of computeDiff is under way.
DiffIdle ==
  /\ oldText = <<>>
  /\ newText = <<>>
  /\ oldLines = <<>>
  /\ newLines = <<>>
  /\ dp = <<>>
  /\ i = 0
  /\ j = 0
  /\ leftStack = <<>>
  /\ rightStack = <<>>
  /\ left = <<>>
  /\ right = <<>>
  /\ pc = "idle"

\* No call of buildTree is under way.
TreeIdle ==
  /\ changed = <<>>
  /\ root = <<>>
  /\ cursor = 0
  /\ treePc = "idle"

\* No call of detectLanguage or tokenizeLine is under way.
SynIdle ==
  /\ filePath = <<>>
  /\ line = <<>>
  /\ lang = NoLanguage
  /\ remaining = <<>>
  /\ tokens = <<>>
  /\ merged = <<>>
  /\ tpc = "idle"

\* The state of the hooks at the first render (lines 250-266).
Constructed ==
  /\ selectedFile = Null
  /\ selectedStatus = Null
  /\ diff = Nothing
  /\ plainContent = Nothing
  /\ comments = <<>>
  /\ commentsKind = "array"
  /\ selectingSide = Null
  /\ selectionStart = NoLine
  /\ selectionEnd = NoLine
  /\ isSelecting = FALSE
  /\ commentInput = <<>>
  /\ showCommentInput = FALSE
  /\ activeCommentId = NoId

\* ReviewMode is not rendered.
RevIdle ==
  /\ Constructed
  /\ files = <<>>
  /\ pending = EmptyBag
  /\ storage = Absent
  /\ quotaExceeded = FALSE
  /\ nextId = 1
  /\ phase = "idle"
  /\ outcome = "ok"

\* A call of computeDiff with any two texts.
Init ==
  /\ oldText \in Texts
  /\ newText \in Texts
  /\ oldLines = <<>>
  /\ newLines = <<>>
  /\ dp = <<>>
  /\ i = 0
  /\ j = 0
  /\ leftStack = <<>>
  /\ rightStack = <<>>
  /\ left = <<>>
  /\ right = <<>>
  /\ pc = "split"
  /\ SynIdle
  /\ RevIdle
  /\ TreeIdle

\* Lines 173-178: split both texts, take the line counts.
Split ==
  /\ pc = "split"
  /\ oldLines' = SplitLines(oldText)
  /\ newLines' = SplitLines(newText)
  /\ pc' = "table"
  /\ UNCHANGED <<oldText, newText, dp, i, j, leftStack, rightStack, left, right>>
  /\ UNCHANGED <<synVars, revVars, treeVars>>

\* Lines 181-196: fill the table, set the cursors to (m, n).
Table ==
  /\ pc = "table"
  /\ dp' = BuildTable(oldLines, newLines)
  /\ i' = Len(oldLines)
  /\ j' = Len(newLines)
  /\ pc' = "backtrack"
  /\ UNCHANGED <<oldText, newText, oldLines, newLines, leftStack, rightStack, left, right>>
  /\ UNCHANGED <<synVars, revVars, treeVars>>

\* TakeAdded with a strict comparison: a tie removes the old line first.
MutTakeAdded(d, x, y) == y > 0 /\ (IF x = 0 THEN TRUE ELSE d[x][y - 1] > d[x - 1][y])

\* The tests of the loop body, lines 202 and 207, at cursors (x, y).
LinesMatch(ol, nl, x, y) == x > 0 /\ y > 0 /\ ol[x] = nl[y]
TakeAdded(d, x, y) == y > 0 /\ (IF x = 0 THEN TRUE ELSE d[x][y - 1] >= d[x - 1][y])

\* The whole backtrack loop and the return, lines 201-225, as one function
\* of the cursors and the two stacks.
RECURSIVE BacktrackLoop(_, _, _, _, _, _, _)
BacktrackLoop(ol, nl, d, x, y, ls, rs) ==
  IF ~(x > 0 \/ y > 0)
  THEN [left |-> Reverse(ls), right |-> Reverse(rs)]
  ELSE IF LinesMatch(ol, nl, x, y)
  THEN BacktrackLoop(ol, nl, d, x - 1, y - 1,
                     Append(ls, UnchangedLeft(ol[x], x)),
                     Append(rs, UnchangedRight(nl[y], y)))
  ELSE IF TakeAdded(d, x, y)
  THEN BacktrackLoop(ol, nl, d, x, y - 1,
                     Append(ls, AddedLeft),
                     Append(rs, AddedRight(nl[y], y)))
  ELSE BacktrackLoop(ol, nl, d, x - 1, y,
                     Append(ls, RemovedLeft(ol[x], x)),
                     Append(rs, RemovedRight))

\* computeDiff as a function of its two arguments.
computeDiff(a, b) ==
  LET ol == SplitLines(a)
      nl == SplitLines(b)
  IN BacktrackLoop(ol, nl, BuildTable(ol, nl), Len(ol), Len(nl), <<>>, <<>>)

\* One iteration of the while loop, first branch (lines 202-206).
BacktrackUnchanged ==
  /\ pc = "backtrack"
  /\ i > 0 \/ j > 0
  /\ LinesMatch(oldLines, newLines, i, j)
  /\ leftStack' = Append(leftStack, UnchangedLeft(oldLines[i], i))
  /\ rightStack' = Append(rightStack, UnchangedRight(newLines[j], j))
  /\ i' = i - 1
  /\ j' = j - 1
  /\ UNCHANGED <<oldText, newText, oldLines, newLines, dp, left, right, pc>>
  /\ UNCHANGED <<synVars, revVars, treeVars>>

\* One iteration of the while loop, second branch (lines 207-211).
BacktrackAdded ==
  /\ pc = "backtrack"
  /\ i > 0 \/ j > 0
  /\ ~LinesMatch(oldLines, newLines, i, j)
  /\ TakeAdded(dp, i, j)
  /\ leftStack' = Append(leftStack, AddedLeft)
  /\ rightStack' = Append(rightStack, AddedRight(newLines[j], j))
  /\ j' = j - 1
  /\ UNCHANGED <<oldText, newText, oldLines, newLines, dp, i, left, right, pc>>
  /\ UNCHANGED <<synVars, revVars, treeVars>>

\* BacktrackRemoved without the blank spacer on the right.
MutBacktrackRemoved ==
  /\ pc = "backtrack"
  /\ i > 0 \/ j > 0
  /\ ~LinesMatch(oldLines, newLines, i, j)
  /\ ~TakeAdded(dp, i, j)
  /\ leftStack' = Append(leftStack, RemovedLeft(oldLines[i], i))
  /\ i' = i - 1
  /\ UNCHANGED <<oldText, newText, oldLines, newLines, dp, j, rightStack, left, right, pc>>
  /\ UNCHANGED <<synVars, revVars, treeVars>>

\* One iteration of the while loop, third branch (lines 212-216).
BacktrackRemoved ==
  /\ pc = "backtrack"
  /\ i > 0 \/ j > 0
  /\ ~LinesMatch(oldLines, newLines, i, j)
  /\ ~TakeAdded(dp, i, j)
  /\ leftStack' = Append(leftStack, RemovedLeft(oldLines[i], i))
  /\ rightStack' = Append(rightStack, RemovedRight)
  /\ i' = i - 1
  /\ UNCHANGED <<oldText, newText, oldLines, newLines, dp, j, left, right, pc>>
  /\ UNCHANGED <<synVars, revVars, treeVars>>

\* Lines 220-225: reverse both stacks in place, copy them out, return.
Finish ==
  /\ pc = "backtrack"
  /\ ~(i > 0 \/ j > 0)
  /\ leftStack' = Reverse(leftStack)
  /\ rightStack' = Reverse(rightStack)
  /\ left' = left \o leftStack'
  /\ right' = right \o rightStack'
  /\ pc' = "done"
  /\ UNCHANGED <<oldText, newText, oldLines, newLines, dp, i, j>>
  /\ UNCHANGED <<synVars, revVars, treeVars>>

Next ==
  \/ Split
  \/ Table
  \/ BacktrackUnchanged
  \/ BacktrackAdded
  \/ BacktrackRemoved
  \/ Finish

Spec == Init /\ [][Next]_vars

\* The step-by-step run returns what the function computeDiff returns.
StepwiseAgrees ==
  pc = "done" => [left |-> left, right |-> right] = computeDiff(oldText, newText)

\* ------------------------------------------------------- claim vocabulary
\* A row that carries a line number of the old side / of the new side.
HasOldLineNum(r) == r.oldLineNum # Unset
HasNewLineNum(r) == r.newLineNum # Unset

\* The texts, and the types, of a row sequence.
TextsOf(rows) == [k \in 1..Len(rows) |-> rows[k].text]
TypesOf(rows) == [k \in 1..Len(rows) |-> rows[k].type]

\* The lines joined by newlines.
RECURSIVE Join(_)
Join(lines) ==
  IF lines = <<>> THEN <<>>
  ELSE IF Len(lines) = 1 THEN lines[1]
  ELSE lines[1] \o <<NL>> \o Join(Tail(lines))

\* The number of lines of a text: none for the empty text, otherwise one
\* more than the number of newlines.
LineCount(text) ==
  IF text = <<>> THEN 0
  ELSE 1 + Cardinality({k \in 1..Len(text) : text[k] = NL})

\* The old-side rows and the new-side rows that are not spacers.
OldRows == SelectSeq(left, HasOldLineNum)
NewRows == SelectSeq(right, HasNewLineNum)

\* ----------------------------------------------------------------- claims
\* C1: the texts of the non-spacer old-side rows, in row order, are the
\* lines of the old text (joined by newlines they give oldText back, and
\* none contains a newline); the same for the new side and newText.
C1_RowsReconstructTexts ==
  pc = "done" =>
    /\ Join(TextsOf(OldRows)) = oldText
    /\ Join(TextsOf(NewRows)) = newText
    /\ Len(OldRows) = LineCount(oldText)
    /\ Len(NewRows) = LineCount(newText)
    /\ \A k \in 1..Len(left) : \A q \in 1..Len(left[k].text) : left[k].text[q] # NL
    /\ \A k \in 1..Len(right) : \A q \in 1..Len(right[k].text) : right[k].text[q] # NL

\* C1 witness: a finished diff of two different texts of several lines, one
\* of them with an empty line.
C1_Witness ==
  /\ pc = "done"
  /\ oldText # newText
  /\ Len(OldRows) >= 2
  /\ Len(NewRows) >= 2
  /\ \E k \in 1..Len(OldRows) : OldRows[k].text = <<>>

C3_EmptyIsOneLine ==
  pc = "done" =>
    /\ oldText = <<>> => /\ Len(OldRows) = 1
                         /\ OldRows[1].oldLineNum = 1
                         /\ OldRows[1].text = <<>>
    /\ newText = <<>> => /\ Len(NewRows) = 1
                         /\ NewRows[1].newLineNum = 1
                         /\ NewRows[1].text = <<>>
    /\ (oldText = <<>> /\ newText = <<>>) =>
         /\ TypesOf(left) = <<"unchanged">>
         /\ TypesOf(right) = <<"unchanged">>

\* C3 as amended: an empty text counts as no line at all: it contributes no
\* row with a line number on its side, every row of the result is then a
\* row of the other text, and the diff of two empty texts has no row.
C3_EmptyIsNoLine ==
  pc = "done" =>
    /\ oldText = <<>> => /\ OldRows = <<>>
                         /\ Len(left) = LineCount(newText)
    /\ newText = <<>> => /\ NewRows = <<>>
                         /\ Len(right) = LineCount(oldText)
    /\ (oldText = <<>> /\ newText = <<>>) => (left = <<>> /\ right = <<>>)

\* C3 witness: the finished diff of two empty texts.
C3_Witness ==
  /\ pc = "done"
  /\ oldText = <<>>
  /\ newText = <<>>

\* C4: with exactly one empty input every row is Added (old text empty) or
\* every row is Removed (new text empty).
C4_OneEmptyInput ==
  pc = "done" =>
    /\ (oldText = <<>> /\ newText # <<>>) =>
         /\ left # <<>>
         /\ \A k \in 1..Len(left) : left[k].type = "added"
         /\ \A k \in 1..Len(right) : right[k].type = "added"
    /\ (oldText # <<>> /\ newText = <<>>) =>
         /\ left # <<>>
         /\ \A k \in 1..Len(left) : left[k].type = "removed"
         /\ \A k \in 1..Len(right) : right[k].type = "removed"

\* C4 witness: a finished diff of the empty text against a text of several
\* lines whose last line is empty.
C4_Witness ==
  /\ pc = "done"
  /\ oldText = <<>>
  /\ Len(right) >= 2
  /\ right[Len(right)].text = <<>>

\* C5: both sides have the same length; beside an Added row stands a
\* spacer on the old side, beside a Removed row a spacer on the new side,
\* and an Unchanged row stands beside an Unchanged row of the same text.
IsSpacer(r) == r.oldLineNum = Unset /\ r.newLineNum = Unset /\ r.text = <<>>

C5_SidesAligned ==
  pc = "done" =>
    /\ Len(left) = Len(right)
    /\ \A k \in 1..Len(left) :
         /\ right[k].type = "added" => IsSpacer(left[k])
         /\ left[k].type = "removed" => IsSpacer(right[k])
         /\ left[k].type = "unchanged" <=> right[k].type = "unchanged"
         /\ left[k].type = "unchanged" => left[k].text = right[k].text

\* C5 witness: a finished diff with an Added, a Removed and an Unchanged row.
C5_Witness ==
  /\ pc = "done"
  /\ \E k \in 1..Len(right) : right[k].type = "added"
  /\ \E k \in 1..Len(left) : left[k].type = "removed"
  /\ \E k \in 1..Len(left) : left[k].type = "unchanged"

\* C6 as stated, of every row that is not a spacer: a Removed row has its
\* old line number and no new one, an Added row its new line number and no
\* old one, an Unchanged row has both.
RowNumbersAsStated(r) ==
  /\ r.type = "removed" => (HasOldLineNum(r) /\ ~HasNewLineNum(r))
  /\ r.type = "added" => (HasNewLineNum(r) /\ ~HasOldLineNum(r))
  /\ r.type = "unchanged" => (HasOldLineNum(r) /\ HasNewLineNum(r))

C6_RowHasBothNumbers ==
  pc = "done" =>
    /\ \A k \in 1..Len(left) : left[k].type # "added" => RowNumbersAsStated(left[k])
    /\ \A k \in 1..Len(right) : right[k].type # "removed" => RowNumbersAsStated(right[k])

\* C6 as amended: an old-side row never carries a new line number and a
\* new-side row never an old one; at every index, taking the old number
\* from the old-side row and the new number from the new-side row, a
\* Removed row has the old number and no new one, an Added row the new
\* number and no old one, an Unchanged row has both.
C6_PairHasNumbers ==
  pc = "done" =>
    /\ Len(left) = Len(right)
    /\ \A k \in 1..Len(left) :
         /\ left[k].type = right[k].type
         /\ ~HasNewLineNum(left[k])
         /\ ~HasOldLineNum(right[k])
         /\ left[k].type = "removed" => (HasOldLineNum(left[k]) /\ ~HasNewLineNum(right[k]))
         /\ left[k].type = "added" => (HasNewLineNum(right[k]) /\ ~HasOldLineNum(left[k]))
         /\ left[k].type = "unchanged" => (HasOldLineNum(left[k]) /\ HasNewLineNum(right[k]))

\* C6 witness: a finished diff with a row of each of the three types.
C6_Witness ==
  /\ pc = "done"
  /\ {"added", "removed", "unchanged"} \subseteq {left[k].type : k \in 1..Len(left)}

\* C7: the old line numbers present, in row order, are 1, 2, .. m and the
\* new line numbers present, in row order, are 1, 2, .. n.
C7_LineNumbersInOrder ==
  pc = "done" =>
    /\ [k \in 1..Len(OldRows) |-> OldRows[k].oldLineNum]
         = [k \in 1..LineCount(oldText) |-> k]
    /\ [k \in 1..Len(NewRows) |-> NewRows[k].newLineNum]
         = [k \in 1..LineCount(newText) |-> k]

\* C7 witness: a finished diff of different texts with several lines on
\* each side and a spacer between numbered rows.
C7_Witness ==
  /\ pc = "done"
  /\ Len(OldRows) >= 2
  /\ Len(NewRows) >= 2
  /\ \E k \in 2..(Len(left) - 1) :
       /\ ~HasOldLineNum(left[k])
       /\ HasOldLineNum(left[k - 1])
       /\ HasOldLineNum(left[k + 1])

\* The Unchanged rows of a result, in row order, each as its text with its
\* old and its new line number.
UnchangedPairs(res) ==
  LET idx == SelectSeq([k \in 1..Len(res.left) |-> k],
                       LAMBDA k : res.left[k].type = "unchanged")
  IN [q \in 1..Len(idx) |-> [text |-> res.left[idx[q]].text,
                             oldLine |-> res.left[idx[q]].oldLineNum,
                             newLine |-> res.right[idx[q]].newLineNum]]

\* Exchange of the old and the new role of such rows.
SwapRoles(pairs) ==
  [q \in 1..Len(pairs) |-> [text |-> pairs[q].text,
                            oldLine |-> pairs[q].newLine,
                            newLine |-> pairs[q].oldLine]]

\* The number of rows of a type in a result.
CountType(res, t) == Cardinality({k \in 1..Len(res.left) : res.left[k].type = t})

\* C8 as stated: the Unchanged rows of computeDiff(A, B) with the roles
\* exchanged are the Unchanged rows of computeDiff(B, A): the same lines
\* with the same pairs of line numbers.
C8_MirrorSameUnchanged ==
  pc = "done" =>
    SwapRoles(UnchangedPairs([left |-> left, right |-> right]))
      = UnchangedPairs(computeDiff(newText, oldText))

\* C8 as amended: computeDiff(A, B) and computeDiff(B, A) have the same
\* number of Unchanged rows, and the Added rows of each are as many as the
\* Removed rows of the other.
C8_MirrorSameCounts ==
  pc = "done" =>
    LET res == [left |-> left, right |-> right]
        mir == computeDiff(newText, oldText)
    IN /\ CountType(res, "unchanged") = CountType(mir, "unchanged")
       /\ CountType(res, "added") = CountType(mir, "removed")
       /\ CountType(res, "removed") = CountType(mir, "added")
       /\ Len(mir.left) = Len(left)

\* C8 witness: a finished diff of two different texts that have a common
\* line and more than one longest common subsequence choice.
C8_Witness ==
  /\ pc = "done"
  /\ oldText # newText
  /\ CountType([left |-> left, right |-> right], "unchanged") >= 1
  /\ CountType([left |-> left, right |-> right], "added") >= 1
  /\ CountType([left |-> left, right |-> right], "removed") >= 1

\* C9 as stated: the diff of "a\nb\nc" and "a\nx\nc" has three rows on
\* each side.
C9_ExampleThreeRows ==
  (pc = "done" /\ oldText = ExampleOld /\ newText = ExampleNew) =>
    /\ left = << UnchangedLeft(<<"a">>, 1), RemovedLeft(<<"b">>, 2),
                 UnchangedLeft(<<"c">>, 3) >>
    /\ right = << UnchangedRight(<<"a">>, 1), AddedRight(<<"x">>, 2),
                  UnchangedRight(<<"c">>, 3) >>

\* C9 as amended: the diff of "a\nb\nc" and "a\nx\nc" has four rows on
\* each side: the rows named by the claim and, beside the Removed row and
\* beside the Added row, a spacer on the other side.
C9_ExampleFourRows ==
  (pc = "done" /\ oldText = ExampleOld /\ newText = ExampleNew) =>
    /\ left = << [type |-> "unchanged", text |-> <<"a">>, oldLineNum |-> 1, newLineNum |-> Unset],
                 [type |-> "removed", text |-> <<"b">>, oldLineNum |-> 2, newLineNum |-> Unset],
                 [type |-> "added", text |-> <<>>, oldLineNum |-> Unset, newLineNum |-> Unset],
                 [type |-> "unchanged", text |-> <<"c">>, oldLineNum |-> 3, newLineNum |-> Unset] >>
    /\ right = << [type |-> "unchanged", text |-> <<"a">>, oldLineNum |-> Unset, newLineNum |-> 1],
                  [type |-> "removed", text |-> <<>>, oldLineNum |-> Unset, newLineNum |-> Unset],
                  [type |-> "added", text |-> <<"x">>, oldLineNum |-> Unset, newLineNum |-> 2],
                  [type |-> "unchanged", text |-> <<"c">>, oldLineNum |-> Unset, newLineNum |-> 3] >>

\* C9 witness: the finished diff of the two example texts.
C9_Witness ==
  /\ pc = "done"
  /\ oldText = ExampleOld
  /\ newText = ExampleNew

\* C10: within every run of consecutive rows that are not Unchanged, no
\* Added row stands before a Removed row.
C10_RemovedBeforeAdded ==
  pc = "done" =>
    \A a \in 1..Len(left) : \A b \in (a + 1)..Len(left) :
      (\A k \in a..b : left[k].type # "unchanged") =>
        ~(left[a].type = "added" /\ left[b].type = "removed")

\* C10 witness: a finished diff with a replacement block of at least two
\* Removed rows followed by an Added row.
C10_Witness ==
  /\ pc = "done"
  /\ \E k \in 1..(Len(left) - 2) :
       /\ left[k].type = "removed"
       /\ left[k + 1].type = "removed"
       /\ left[k + 2].type = "added"

\* =================================================================
\* syntax.ts, detectLanguage
\* =================================================================

\* Longest path given to detectLanguage (in characters).
MaxPathLen == 4

\* Characters the bounded paths are written in.
PathAlphabet == {"t", "s", "x", "T", ".", "/"}

\* The paths detectLanguage is called with.
Paths == UNION {[1..k -> PathAlphabet] : k \in 0..MaxPathLen}

\* String.prototype.split(sep) for a one-character separator.
RECURSIVE JsSplitAt(_, _)
JsSplitAt(text, sep) ==
  IF \A k \in 1..Len(text) : text[k] # sep
  THEN <<text>>
  ELSE LET p == CHOOSE k \in 1..Len(text) :
                  /\ text[k] = sep
                  /\ \A q \in 1..(k - 1) : text[q] # sep
       IN <<SubSeq(text, 1, p - 1)>> \o JsSplitAt(SubSeq(text, p + 1, Len(text)), sep)

\* String.prototype.toLowerCase, on the letters A-Z.
UpperLetters == <<"A", "B", "C", "D", "E", "F", "G", "H", "I", "J", "K", "L", "M",
                  "N", "O", "P", "Q", "R", "S", "T", "U", "V", "W", "X", "Y", "Z">>
LowerLetters == <<"a", "b", "c", "d", "e", "f", "g", "h", "i", "j", "k", "l", "m",
                  "n", "o", "p", "q", "r", "s", "t", "u", "v", "w", "x", "y", "z">>
LowerChar(c) ==
  IF \E k \in 1..Len(UpperLetters) : UpperLetters[k] = c
  THEN LowerLetters[CHOOSE k \in 1..Len(UpperLetters) : UpperLetters[k] = c]
  ELSE c
ToLowerCase(text) == [k \in 1..Len(text) |-> LowerChar(text[k])]

\* The case labels of the switch.
JsExtensions == {<<"j", "s">>, <<"j", "s", "x">>, <<"t", "s">>, <<"t", "s", "x">>, <<"m", "j", "s">>, <<"c", "j", "s">>, <<"m", "t", "s">>, <<"c", "t", "s">>}
RustExtensions == {<<"r", "s">>}
JsonExtensions == {<<"j", "s", "o", "n">>, <<"j", "s", "o", "n", "c">>}

\* The switch of detectLanguage on an extension.
LanguageOfExtension(ext) ==
  IF ext \in JsExtensions THEN "js"
  ELSE IF ext \in RustExtensions THEN "rust"
  ELSE IF ext \in JsonExtensions THEN "json"
  ELSE NoLanguage

\* filePath.split(".").pop()?.toLowerCase(), then the switch.
detectLanguage(path) ==
  LET parts == JsSplitAt(path, ".")
      ext == ToLowerCase(parts[Len(parts)])
  IN LanguageOfExtension(ext)

\* A call of detectLanguage with any path.
InitDetect ==
  /\ DiffIdle
  /\ TreeIdle
  /\ RevIdle
  /\ filePath \in Paths
  /\ line = <<>>
  /\ lang = NoLanguage
  /\ remaining = <<>>
  /\ tokens = <<>>
  /\ merged = <<>>
  /\ tpc = "detect"

\* The call returns.
Detect ==
  /\ tpc = "detect"
  /\ lang' = detectLanguage(filePath)
  /\ tpc' = "detected"
  /\ UNCHANGED <<filePath, line, remaining, tokens, merged>>
  /\ UNCHANGED <<diffVars, revVars, treeVars>>

NextDetect == Detect

SpecDetect == InitDetect /\ [][NextDetect]_vars

\* The file name of a path: what follows its last "/".
FileNameOf(path) ==
  LET parts == JsSplitAt(path, "/") IN parts[Len(parts)]

\* A file name has an extension when it contains a "."; the extension is
\* what follows the last one.
HasExtension(path) == \E k \in 1..Len(FileNameOf(path)) : FileNameOf(path)[k] = "."
ExtensionOf(path) ==
  LET name == FileNameOf(path)
      p == CHOOSE k \in 1..Len(name) :
             /\ name[k] = "."
             /\ \A q \in (k + 1)..Len(name) : name[q] # "."
  IN SubSeq(name, p + 1, Len(name))

\* C14: the language detected is the one the table gives for the lowercased
\* extension of the file name, and none when the file name has no
\* extension.
C14_DetectByExtension ==
  tpc = "detected" =>
    lang = IF HasExtension(filePath)
           THEN LanguageOfExtension(ToLowerCase(ExtensionOf(filePath)))
           ELSE NoLanguage

\* Where detectLanguage departs from C14: only on a path without any "."
\* whose whole text is, in lower case, an extension of the table.
DetectDepartsOnlyOnBareNames ==
  tpc = "detected" =>
    \/ lang = IF HasExtension(filePath)
              THEN LanguageOfExtension(ToLowerCase(ExtensionOf(filePath)))
              ELSE NoLanguage
    \/ /\ \A k \in 1..Len(filePath) : filePath[k] \notin {".", "/"}
       /\ LanguageOfExtension(ToLowerCase(filePath)) # NoLanguage
       /\ lang = LanguageOfExtension(ToLowerCase(filePath))

\* =================================================================
\* syntax.ts, tokenizeLine and the rule tables
\* =================================================================

\* Longest line given to tokenizeLine (in characters).
MaxLineLen == 3

\* Characters the bounded lines are written in.
LineAlphabet == {"i", "f", "1", "\"", "/", " ", "(", ":"}

\* The lines and the languages tokenizeLine is called with.
Lines(longest) == UNION {[1..k -> LineAlphabet] : k \in 0..longest}
Languages == {"js", "rust", "json"}

\* COLORS: punctuation and default are the same colour.
COLORS ==
  [keyword |-> "#c586c0", declaration |-> "#569cd6", string |-> "#ce9178",
   comment |-> "#6a9955", number |-> "#b5cea8", type |-> "#4ec9b0",
   function |-> "#dcdcaa", punctuation |-> "#d4d4d4", default |-> "#d4d4d4"]

\* The word lists the keyword rules are built from.
JS_KEYWORDS ==
  {<<"b", "r", "e", "a", "k">>, <<"c", "a", "s", "e">>, <<"c", "a", "t", "c", "h">>,
   <<"c", "o", "n", "t", "i", "n", "u", "e">>, <<"d", "e", "b", "u", "g", "g", "e", "r">>,
   <<"d", "e", "f", "a", "u", "l", "t">>, <<"d", "o">>, <<"e", "l", "s", "e">>,
   <<"f", "i", "n", "a", "l", "l", "y">>, <<"f", "o", "r">>, <<"i", "f">>,
   <<"r", "e", "t", "u", "r", "n">>, <<"s", "w", "i", "t", "c", "h">>, <<"t", "h", "r", "o", "w">>,
   <<"t", "r", "y">>, <<"w", "h", "i", "l", "e">>, <<"y", "i", "e", "l", "d">>,
   <<"a", "w", "a", "i", "t">>, <<"a", "s", "y", "n", "c">>, <<"n", "e", "w">>,
   <<"d", "e", "l", "e", "t", "e">>, <<"t", "y", "p", "e", "o", "f">>, <<"v", "o", "i", "d">>,
   <<"i", "n">>, <<"o", "f">>, <<"i", "n", "s", "t", "a", "n", "c", "e", "o", "f">>}
JS_DECLARATIONS ==
  {<<"c", "o", "n", "s", "t">>, <<"l", "e", "t">>, <<"v", "a", "r">>,
   <<"f", "u", "n", "c", "t", "i", "o", "n">>, <<"c", "l", "a", "s", "s">>,
   <<"e", "x", "t", "e", "n", "d", "s">>, <<"i", "m", "p", "l", "e", "m", "e", "n", "t", "s">>,
   <<"i", "m", "p", "o", "r", "t">>, <<"e", "x", "p", "o", "r", "t">>, <<"f", "r", "o", "m">>,
   <<"a", "s">>, <<"d", "e", "f", "a", "u", "l", "t">>,
   <<"i", "n", "t", "e", "r", "f", "a", "c", "e">>, <<"t", "y", "p", "e">>, <<"e", "n", "u", "m">>,
   <<"n", "a", "m", "e", "s", "p", "a", "c", "e">>, <<"m", "o", "d", "u", "l", "e">>,
   <<"d", "e", "c", "l", "a", "r", "e">>, <<"a", "b", "s", "t", "r", "a", "c", "t">>,
   <<"r", "e", "a", "d", "o", "n", "l", "y">>}
JS_CONSTANTS ==
  {<<"t", "r", "u", "e">>, <<"f", "a", "l", "s", "e">>, <<"n", "u", "l", "l">>,
   <<"u", "n", "d", "e", "f", "i", "n", "e", "d">>, <<"N", "a", "N">>,
   <<"I", "n", "f", "i", "n", "i", "t", "y">>, <<"t", "h", "i", "s">>, <<"s", "u", "p", "e", "r">>}
RUST_KEYWORDS ==
  {<<"a", "s">>, <<"b", "r", "e", "a", "k">>, <<"c", "o", "n", "t", "i", "n", "u", "e">>,
   <<"e", "l", "s", "e">>, <<"e", "n", "u", "m">>, <<"e", "x", "t", "e", "r", "n">>,
   <<"f", "o", "r">>, <<"i", "f">>, <<"i", "m", "p", "l">>, <<"i", "n">>, <<"l", "o", "o", "p">>,
   <<"m", "a", "t", "c", "h">>, <<"m", "o", "v", "e">>, <<"m", "u", "t">>, <<"r", "e", "f">>,
   <<"r", "e", "t", "u", "r", "n">>, <<"s", "e", "l", "f">>, <<"S", "e", "l", "f">>,
   <<"s", "t", "a", "t", "i", "c">>, <<"s", "t", "r", "u", "c", "t">>, <<"t", "r", "a", "i", "t">>,
   <<"t", "y", "p", "e">>, <<"u", "n", "s", "a", "f", "e">>, <<"u", "s", "e">>,
   <<"w", "h", "e", "r", "e">>, <<"w", "h", "i", "l", "e">>, <<"a", "s", "y", "n", "c">>,
   <<"a", "w", "a", "i", "t">>, <<"d", "y", "n">>, <<"y", "i", "e", "l", "d">>}
RUST_DECLARATIONS ==
  {<<"c", "o", "n", "s", "t">>, <<"c", "r", "a", "t", "e">>, <<"f", "n">>, <<"l", "e", "t">>,
   <<"m", "o", "d">>, <<"p", "u", "b">>, <<"s", "t", "a", "t", "i", "c">>,
   <<"s", "t", "r", "u", "c", "t">>, <<"t", "r", "a", "i", "t">>, <<"t", "y", "p", "e">>,
   <<"u", "s", "e">>, <<"e", "x", "t", "e", "r", "n">>, <<"i", "m", "p", "l">>,
   <<"e", "n", "u", "m">>}
RUST_CONSTANTS ==
  {<<"t", "r", "u", "e">>, <<"f", "a", "l", "s", "e">>, <<"N", "o", "n", "e">>,
   <<"S", "o", "m", "e">>, <<"O", "k">>, <<"E", "r", "r">>, <<"s", "e", "l", "f">>,
   <<"S", "e", "l", "f">>}
RUST_TYPES ==
  {<<"b", "o", "o", "l">>, <<"c", "h", "a", "r">>, <<"f", "3", "2">>, <<"f", "6", "4">>,
   <<"i", "8">>, <<"i", "1", "6">>, <<"i", "3", "2">>, <<"i", "6", "4">>, <<"i", "1", "2", "8">>,
   <<"i", "s", "i", "z", "e">>, <<"u", "8">>, <<"u", "1", "6">>, <<"u", "3", "2">>,
   <<"u", "6", "4">>, <<"u", "1", "2", "8">>, <<"u", "s", "i", "z", "e">>, <<"s", "t", "r">>,
   <<"S", "t", "r", "i", "n", "g">>, <<"V", "e", "c">>, <<"O", "p", "t", "i", "o", "n">>,
   <<"R", "e", "s", "u", "l", "t">>, <<"B", "o", "x">>, <<"R", "c">>, <<"A", "r", "c">>,
   <<"H", "a", "s", "h", "M", "a", "p">>, <<"H", "a", "s", "h", "S", "e", "t">>,
   <<"B", "T", "r", "e", "e", "M", "a", "p">>, <<"B", "T", "r", "e", "e", "S", "e", "t">>}
\* The alternatives of the number suffix of the Rust number rule.
RustNumberSuffixes ==
  {<<"u", "8">>, <<"u", "1", "6">>, <<"u", "3", "2">>, <<"u", "6", "4">>, <<"u", "1", "2", "8">>,
   <<"u", "s", "i", "z", "e">>, <<"i", "8">>, <<"i", "1", "6">>, <<"i", "3", "2">>,
   <<"i", "6", "4">>, <<"i", "1", "2", "8">>, <<"i", "s", "i", "z", "e">>, <<"f", "3", "2">>,
   <<"f", "6", "4">>}
\* The alternatives of /^(?:true|false|null)\b/.
JsonLiterals == {<<"t", "r", "u", "e">>, <<"f", "a", "l", "s", "e">>, <<"n", "u", "l", "l">>}

\* The character classes of the patterns.
Digits == {"0", "1", "2", "3", "4", "5", "6", "7", "8", "9"}
Uppers == {UpperLetters[k] : k \in 1..Len(UpperLetters)}
Letters == Uppers \cup {LowerLetters[k] : k \in 1..Len(LowerLetters)}
WordChars == Letters \cup Digits \cup {"_"}
DigitsUnderscore == Digits \cup {"_"}
SpaceChars == {" ", "\t", "\n", "\r", "\f"}
LineTerminators == {"\n", "\r"}
JsonPunctuation == {"{", "}", "(", ")", "[", "]", ";", ",", ":"}
Punctuation ==
  {"{", "}", "(", ")", "[", "]", ";", ",", ".", ":", "?", "!", "&", "|", "<", ">",
   "=", "+", "-", "*", "/", "%", "~", "^", "@", "#"}

\* The quote character of template literals, written by its name.
Backtick == "backtick"

\* The value of String.prototype.match when the pattern does not match.
NoMatch == -1

\* The character of s at position p, or "" beyond its end.
CharAt(s, p) == IF p >= 1 /\ p <= Len(s) THEN s[p] ELSE ""

\* s has the word w at position p.
StartsWith(s, p, w) ==
  /\ p + Len(w) - 1 <= Len(s)
  /\ \A k \in 1..Len(w) : s[p + k - 1] = w[k]

\* The length of the longest run of characters of class at position p
\* (a greedy class* or class+).
RunLen(s, p, class) ==
  Cardinality({q \in p..Len(s) : \A k \in p..q : s[k] \in class})

\* The position of the first occurrence of the word w at or after p, 0 if
\* there is none (a lazy [\s\S]*? up to w).
FirstAt(s, p, w) ==
  IF \E q \in p..Len(s) : StartsWith(s, q, w)
  THEN CHOOSE q \in p..Len(s) :
         /\ StartsWith(s, q, w)
         /\ \A r \in p..(q - 1) : ~StartsWith(s, r, w)
  ELSE 0

\* /^\/\/.*$/ : "//" and the rest, which holds no line terminator.
MatchLineComment(s) ==
  IF StartsWith(s, 1, <<"/", "/">>) /\ \A k \in 3..Len(s) : s[k] \notin LineTerminators
  THEN Len(s) ELSE NoMatch

\* /^\/\*[\s\S]*?\*\// : "/*" up to the first "*/".
MatchBlockComment(s) ==
  IF StartsWith(s, 1, <<"/", "*">>) /\ FirstAt(s, 3, <<"*", "/">>) # 0
  THEN FirstAt(s, 3, <<"*", "/">>) + 1 ELSE NoMatch

\* The body and the closing quote of (?:[^q\\]|\\.)*q from position p: the
\* position of the closing quote, or NoMatch.
RECURSIVE QuotedEnd(_, _, _)
QuotedEnd(s, p, q) ==
  IF p > Len(s) THEN NoMatch
  ELSE IF s[p] = q THEN p
  ELSE IF s[p] = "\\"
  THEN IF p + 1 <= Len(s) /\ s[p + 1] \notin LineTerminators
       THEN QuotedEnd(s, p + 2, q) ELSE NoMatch
  ELSE QuotedEnd(s, p + 1, q)

\* /^q(?:[^q\\]|\\.)*q/ for the quote character q.
MatchQuoted(s, q) ==
  IF CharAt(s, 1) = q THEN QuotedEnd(s, 2, q) ELSE NoMatch

\* /^"(?:[^"\\]|\\.)*"(?=\s*:)/ : a string followed by spaces and ":".
MatchJsonKey(s) ==
  LET n == MatchQuoted(s, "\"") IN
  IF n # NoMatch /\ CharAt(s, n + 1 + RunLen(s, n + 1, SpaceChars)) = ":"
  THEN n ELSE NoMatch

\* [\d][\d_]* from the digit at position p: the position of its last
\* character.
DigitsEnd(s, p) == p + RunLen(s, p + 1, DigitsUnderscore)

\* (?:\.[\d_]+)? after position e: the position of its last character, e
\* when it matches nothing.
FractionEnd(s, e) ==
  IF CharAt(s, e + 1) = "." /\ RunLen(s, e + 2, DigitsUnderscore) >= 1
  THEN e + 1 + RunLen(s, e + 2, DigitsUnderscore) ELSE e

\* \d+ at position q, after an exponent letter at position e + 1: the
\* position of its last character, e when there is no digit.
ExponentDigitsEnd(s, e, q) ==
  IF RunLen(s, q, Digits) >= 1 THEN q - 1 + RunLen(s, q, Digits) ELSE e

\* (?:[eE][+-]?\d+)? after position e: the position of its last character,
\* e when it matches nothing.
ExponentEnd(s, e) ==
  IF CharAt(s, e + 1) \notin {"e", "E"} THEN e
  ELSE IF CharAt(s, e + 2) \in {"+", "-"} THEN ExponentDigitsEnd(s, e, e + 3)
  ELSE ExponentDigitsEnd(s, e, e + 2)

\* [\d][\d_]*(?:\.[\d_]+)?(?:[eE][+-]?\d+)? from position p: the position
\* of the last character matched, or NoMatch.
NumberEnd(s, p) ==
  IF CharAt(s, p) \notin Digits THEN NoMatch
  ELSE ExponentEnd(s, FractionEnd(s, DigitsEnd(s, p)))

\* (?:0[xXbBoO])?[\d]... : with the prefix when a digit follows it,
\* otherwise without.
PrefixedNumberEnd(s) ==
  IF /\ CharAt(s, 1) = "0"
     /\ CharAt(s, 2) \in {"x", "X", "b", "B", "o", "O"}
     /\ CharAt(s, 3) \in Digits
  THEN NumberEnd(s, 3) ELSE NumberEnd(s, 1)

\* The JSON number rule: an optional "-" first.
MatchJsonNumber(s) ==
  IF CharAt(s, 1) = "-" THEN NumberEnd(s, 2) ELSE NumberEnd(s, 1)

\* n? after a number that ends at position e.
BigIntEnd(s, e) ==
  IF e = NoMatch THEN NoMatch
  ELSE IF CharAt(s, e + 1) = "n" THEN e + 1 ELSE e

\* The js number rule: an optional "n" last.
MatchJsNumber(s) == BigIntEnd(s, PrefixedNumberEnd(s))

\* The length of the alternative of (?:u8|...|f64) found at position p, 0
\* when there is none.
SuffixLen(s, p) ==
  IF \E w \in RustNumberSuffixes : StartsWith(s, p, w)
  THEN Len(CHOOSE w \in RustNumberSuffixes : StartsWith(s, p, w))
  ELSE 0

\* (?:_?(?:u8|...|f64))? after a number that ends at position e.
SuffixEnd(s, e) ==
  IF e = NoMatch THEN NoMatch
  ELSE IF CharAt(s, e + 1) = "_" /\ SuffixLen(s, e + 2) > 0 THEN e + 1 + SuffixLen(s, e + 2)
  ELSE e + SuffixLen(s, e + 1)

\* The Rust number rule: an optional suffix last.
MatchRustNumber(s) == SuffixEnd(s, PrefixedNumberEnd(s))

\* /^first rest*/ : one character of first, then a run of rest.
MatchRun(s, first, rest) ==
  IF CharAt(s, 1) \in first THEN 1 + RunLen(s, 2, rest) ELSE NoMatch

\* /^\b(?:w1|w2|...)\b/ and /^(?:w1|w2|...)\b/ : the run of word characters
\* that s starts with is one of the words.
MatchWord(s, words) ==
  IF RunLen(s, 1, WordChars) >= 1 /\ SubSeq(s, 1, RunLen(s, 1, WordChars)) \in words
  THEN RunLen(s, 1, WordChars) ELSE NoMatch

\* /^first rest*(?=\s*\()/ : an identifier followed by spaces and "(".
MatchCall(s, first, rest) ==
  LET n == MatchRun(s, first, rest) IN
  IF n # NoMatch /\ CharAt(s, n + 1 + RunLen(s, n + 1, SpaceChars)) = "("
  THEN n ELSE NoMatch

\* /^[a-zA-Z_]\w*!/ : an identifier followed by "!".
MatchMacro(s) ==
  LET n == MatchRun(s, Letters \cup {"_"}, WordChars) IN
  IF n # NoMatch /\ CharAt(s, n + 1) = "!" THEN n + 1 ELSE NoMatch

\* /^#!?\[[\s\S]*?\]/ : "#[" or "#![" up to the first "]".
MatchAttribute(s) ==
  LET open == IF CharAt(s, 2) = "!" /\ CharAt(s, 3) = "[" THEN 3
              ELSE IF CharAt(s, 2) = "[" THEN 2 ELSE 0
  IN IF CharAt(s, 1) = "#" /\ open # 0 /\ FirstAt(s, open + 1, <<"]">>) # 0
     THEN FirstAt(s, open + 1, <<"]">>) ELSE NoMatch

\* /^r#*"[\s\S]*?"#*/ : a raw string.
MatchRawString(s) ==
  LET open == 2 + RunLen(s, 2, {"#"})
      close == FirstAt(s, open + 1, <<"\"">>)
  IN IF CharAt(s, 1) = "r" /\ CharAt(s, open) = "\"" /\ close # 0
     THEN close + RunLen(s, close + 1, {"#"}) ELSE NoMatch

\* /^'(?:[^'\\]|\\.)'/ : a character literal.
MatchCharLiteral(s) ==
  IF CharAt(s, 1) # "'" THEN NoMatch
  ELSE IF Len(s) >= 3 /\ s[2] \notin {"'", "\\"} /\ s[3] = "'" THEN 3
  ELSE IF Len(s) >= 4 /\ s[2] = "\\" /\ s[3] \notin LineTerminators /\ s[4] = "'" THEN 4
  ELSE NoMatch

\* /^'[a-zA-Z_]\w*/ : a lifetime.
MatchLifetime(s) ==
  IF CharAt(s, 1) = "'" /\ CharAt(s, 2) \in (Letters \cup {"_"})
  THEN 2 + RunLen(s, 3, WordChars) ELSE NoMatch

\* A variant that also matches no character at all (class*).
MutMatchClass(s, class) == RunLen(s, 1, class)
\* /^class+/ .
MatchClass(s, class) ==
  IF RunLen(s, 1, class) >= 1 THEN RunLen(s, 1, class) ELSE NoMatch

\* /^./ : any character but a line terminator.
MatchAny(s) ==
  IF Len(s) >= 1 /\ s[1] \notin LineTerminators THEN 1 ELSE NoMatch

\* remaining.match(regex) for a rule: the length of m[0], or NoMatch.
MatchRule(rule, s) ==
  CASE rule.pattern = "lineComment"  -> MatchLineComment(s)
    [] rule.pattern = "blockComment" -> MatchBlockComment(s)
    [] rule.pattern = "template"     -> MatchQuoted(s, Backtick)
    [] rule.pattern = "string"       -> MatchQuoted(s, "\"")
    [] rule.pattern = "singleQuoted" -> MatchQuoted(s, "'")
    [] rule.pattern = "jsonKey"      -> MatchJsonKey(s)
    [] rule.pattern = "jsonNumber"   -> MatchJsonNumber(s)
    [] rule.pattern = "jsNumber"     -> MatchJsNumber(s)
    [] rule.pattern = "rustNumber"   -> MatchRustNumber(s)
    [] rule.pattern = "capitalized"  -> MatchRun(s, Uppers, WordChars)
    [] rule.pattern = "words"        -> MatchWord(s, rule.words)
    [] rule.pattern = "jsCall"       -> MatchCall(s, Letters \cup {"_", "$"}, WordChars \cup {"$"})
    [] rule.pattern = "jsIdent"      -> MatchRun(s, Letters \cup {"_", "$"}, WordChars \cup {"$"})
    [] rule.pattern = "rustCall"     -> MatchCall(s, Letters \cup {"_"}, WordChars)
    [] rule.pattern = "rustIdent"    -> MatchRun(s, Letters \cup {"_"}, WordChars)
    [] rule.pattern = "macro"        -> MatchMacro(s)
    [] rule.pattern = "attribute"    -> MatchAttribute(s)
    [] rule.pattern = "rawString"    -> MatchRawString(s)
    [] rule.pattern = "charLiteral"  -> MatchCharLiteral(s)
    [] rule.pattern = "lifetime"     -> MatchLifetime(s)
    [] rule.pattern = "class"        -> MatchClass(s, rule.words)
    [] rule.pattern = "any"          -> MatchAny(s)

\* A rule: a pattern, its word list or character class, and a colour.
Rule(pattern, words, color) == [pattern |-> pattern, words |-> words, color |-> color]

\* buildRules: the ordered rule list of a language.
buildRules(l) ==
  IF l = "json" THEN
    << Rule("jsonKey", {}, COLORS.type),
       Rule("string", {}, COLORS.string),
       Rule("jsonNumber", {}, COLORS.number),
       Rule("words", JsonLiterals, COLORS.declaration),
       Rule("class", JsonPunctuation, COLORS.punctuation),
       Rule("class", SpaceChars, COLORS.default),
       Rule("any", {}, COLORS.default) >>
  ELSE IF l = "js" THEN
    << Rule("lineComment", {}, COLORS.comment),
       Rule("blockComment", {}, COLORS.comment),
       Rule("template", {}, COLORS.string),
       Rule("string", {}, COLORS.string),
       Rule("singleQuoted", {}, COLORS.string),
       Rule("jsNumber", {}, COLORS.number),
       Rule("capitalized", {}, COLORS.type),
       Rule("words", JS_DECLARATIONS, COLORS.declaration),
       Rule("words", JS_KEYWORDS, COLORS.keyword),
       Rule("words", JS_CONSTANTS, COLORS.declaration),
       Rule("jsCall", {}, COLORS.function),
       Rule("jsIdent", {}, COLORS.default),
       Rule("class", Punctuation, COLORS.punctuation),
       Rule("class", SpaceChars, COLORS.default),
       Rule("any", {}, COLORS.default) >>
  ELSE
    << Rule("lineComment", {}, COLORS.comment),
       Rule("blockComment", {}, COLORS.comment),
       Rule("attribute", {}, COLORS.keyword),
       Rule("rawString", {}, COLORS.string),
       Rule("string", {}, COLORS.string),
       Rule("charLiteral", {}, COLORS.string),
       Rule("lifetime", {}, COLORS.keyword),
       Rule("rustNumber", {}, COLORS.number),
       Rule("words", RUST_TYPES, COLORS.type),
       Rule("capitalized", {}, COLORS.type),
       Rule("words", RUST_DECLARATIONS, COLORS.declaration),
       Rule("words", RUST_KEYWORDS, COLORS.keyword),
       Rule("words", RUST_CONSTANTS, COLORS.declaration),
       Rule("macro", {}, COLORS.function),
       Rule("rustCall", {}, COLORS.function),
       Rule("rustIdent", {}, COLORS.default),
       Rule("class", Punctuation, COLORS.punctuation),
       Rule("class", SpaceChars, COLORS.default),
       Rule("any", {}, COLORS.default) >>

\* getRules: the cached list is the built list.
getRules(l) == buildRules(l)

\* The index of the first rule of rules that matches s, 0 if none does (the
\* for loop with its break).
FirstMatch(rules, s) ==
  IF \E k \in 1..Len(rules) : MatchRule(rules[k], s) # NoMatch
  THEN CHOOSE k \in 1..Len(rules) :
         /\ MatchRule(rules[k], s) # NoMatch
         /\ \A h \in 1..(k - 1) : MatchRule(rules[h], s) = NoMatch
  ELSE 0

\* The token one pass of the while loop pushes: m[0] with the colour of the
\* first matching rule, or remaining[0] in the default colour.
ScannedToken(rules, s) ==
  LET k == FirstMatch(rules, s) IN
  IF k # 0
  THEN [text |-> SubSeq(s, 1, MatchRule(rules[k], s)), color |-> rules[k].color]
  ELSE [text |-> SubSeq(s, 1, 1), color |-> COLORS.default]

\* remaining.slice(n)
Slice(s, n) == SubSeq(s, n + 1, Len(s))

\* A variant that keeps only the text of the later token.
MutAppendText(a, b) == b
\* merged[merged.length - 1].text += t.text
AppendText(a, b) == a \o b

\* A variant that never merges.
MutMergeToken(m, t) == Append(m, t)
\* One pass of the merge loop over the token t.
MergeToken(m, t) ==
  IF Len(m) > 0 /\ m[Len(m)].color = t.color
  THEN [m EXCEPT ![Len(m)].text = AppendText(m[Len(m)].text, t.text)]
  ELSE Append(m, t)

\* The merge loop over all of toks, starting from m.
RECURSIVE MergeLoop(_, _)
MergeLoop(m, toks) ==
  IF toks = <<>> THEN m
  ELSE MergeLoop(MergeToken(m, Head(toks)), Tail(toks))

\* tokenizeLine is called with a line and a language.
InitTokenize ==
  /\ DiffIdle
  /\ TreeIdle
  /\ RevIdle
  /\ filePath = <<>>
  /\ line \in Lines(MaxLineLen)
  /\ lang \in Languages \cup {NoLanguage}
  /\ remaining = <<>>
  /\ tokens = <<>>
  /\ merged = <<>>
  /\ tpc = "start"

\* if (!lang) return [{ text: line, color: COLORS.default }]
TokenizePlain ==
  /\ tpc = "start"
  /\ lang = NoLanguage
  /\ merged' = <<[text |-> line, color |-> COLORS.default]>>
  /\ tpc' = "done"
  /\ UNCHANGED <<filePath, line, lang, remaining, tokens>>
  /\ UNCHANGED <<diffVars, revVars, treeVars>>

\* const tokens = []; let remaining = line
TokenizeStart ==
  /\ tpc = "start"
  /\ lang # NoLanguage
  /\ remaining' = line
  /\ tokens' = <<>>
  /\ tpc' = "scan"
  /\ UNCHANGED <<filePath, line, lang, merged>>
  /\ UNCHANGED <<diffVars, revVars, treeVars>>

\* One pass of while (remaining.length > 0).
ScanStep ==
  /\ tpc = "scan"
  /\ Len(remaining) > 0
  /\ LET t == ScannedToken(getRules(lang), remaining) IN
       /\ tokens' = Append(tokens, t)
       /\ remaining' = Slice(remaining, Len(t.text))
  /\ UNCHANGED <<filePath, line, lang, merged, tpc>>
  /\ UNCHANGED <<diffVars, revVars, treeVars>>

\* The merge loop and the return.
MergeTokens ==
  /\ tpc = "scan"
  /\ Len(remaining) = 0
  /\ merged' = MergeLoop(<<>>, tokens)
  /\ tpc' = "done"
  /\ UNCHANGED <<filePath, line, lang, remaining, tokens>>
  /\ UNCHANGED <<diffVars, revVars, treeVars>>

NextTokenize ==
  \/ TokenizePlain
  \/ TokenizeStart
  \/ ScanStep
  \/ MergeTokens

SpecTokenize == InitTokenize /\ [][NextTokenize]_vars

\* The texts of a token list, concatenated.
RECURSIVE ConcatTexts(_)
ConcatTexts(toks) ==
  IF toks = <<>> THEN <<>> ELSE Head(toks).text \o ConcatTexts(Tail(toks))

\* C11: the texts of the returned tokens, concatenated in order, are the
\* line, for every language and for no language; during the scan the texts
\* pushed so far followed by the rest still to scan are the line.
C11_TokensReconstructLine ==
  /\ tpc = "scan" => ConcatTexts(tokens) \o remaining = line
  /\ tpc = "done" => ConcatTexts(merged) = line

\* A line of a language came back as fewer tokens than were scanned.
C11_Witness ==
  /\ tpc = "done"
  /\ lang # NoLanguage
  /\ Len(merged) >= 2
  /\ Len(merged) < Len(tokens)

\* C12 as stated: the number of returned tokens is at most the number of
\* characters of the line, for every language tag and for none.
C12_TokensAtMostChars ==
  tpc = "done" => Len(merged) <= Len(line)

\* C12: with a language every scanned token takes at least one character,
\* so the scan stops and the returned tokens are at most as many as the
\* characters of the line; with no language exactly one token is returned,
\* whatever the length of the line.
C12_ScanConsumes ==
  /\ tpc \in {"scan", "done"} /\ lang # NoLanguage =>
       /\ \A k \in 1..Len(tokens) : Len(tokens[k].text) >= 1
       /\ Len(tokens) + Len(remaining) <= Len(line)
  /\ tpc = "done" /\ lang # NoLanguage =>
       /\ remaining = <<>>
       /\ Len(merged) <= Len(line)
  /\ tpc = "done" /\ lang = NoLanguage => Len(merged) = 1

\* A line of a language was scanned into as many tokens as it has
\* characters, and the empty line came back as one token without a language.
C12_Witness ==
  /\ tpc = "done"
  /\ \/ lang # NoLanguage /\ Len(line) = MaxLineLen /\ Len(merged) = Len(line)
     \/ lang = NoLanguage /\ line = <<>>

\* C13: no two consecutive returned tokens have the same colour.
C13_NeighboursDiffer ==
  tpc = "done" =>
    \A k \in 1..(Len(merged) - 1) : merged[k].color # merged[k + 1].color

\* Two neighbours of one colour were merged and two tokens came back.
C13_Witness ==
  /\ tpc = "done"
  /\ Len(merged) = 2
  /\ \E k \in 1..(Len(tokens) - 1) : tokens[k].color = tokens[k + 1].color

\* =================================================================
\* ReviewMode.tsx, the comments of a session
\* =================================================================

\* Highest line number of a file.
MaxLine == 2

\* How many ids crypto.randomUUID() hands out in a session.
MaxIds == 2

\* How many calls of git_file_diff are in flight at a time.
MaxInFlight == 3

\* Longest comment list found in localStorage when the session starts.
MaxStored == 2

\* The two sides of a diff.
Sides == {"old", "new"}

\* Changed files as git_changed_files reports them.
ModifiedFile == [path |-> "a.ts", status |-> "M"]
AddedFile == [path |-> "b.rs", status |-> "A"]

DeletedFile == [path |-> "c.json", status |-> "D"]

\* Ids of comments, standing for the strings of crypto.randomUUID().
CommentIds == 1..MaxIds

\* Line numbers of a file.
LineNumbers == 1..MaxLine

\* Readings of the clock, as new Date().toISOString() gives them.
Instants == {"2026-01-01T00:00:00.000Z"}

\* Texts typed into the comment box.
InputTexts == {<<>>, <<" ">>, <<" ", "x">>}

\* The lines of a file of n lines.
FileLines(n) == [k \in 1..n |-> <<"a">>]

\* What the command git_file_diff answers for a path while the session
\* lasts: one line replaced by another in the modified file, MaxLine new
\* lines in the added file, one old line in the deleted file.
git_file_diff(path) ==
  IF path = ModifiedFile.path
  THEN [old_content |-> <<"a">>, new_content |-> <<"b">>]
  ELSE IF path = AddedFile.path
  THEN [old_content |-> <<>>, new_content |-> Join(FileLines(MaxLine))]
  ELSE [old_content |-> <<"a">>, new_content |-> <<>>]

\* The content area: the single pane when plainContent is not null, on the
\* side that selectedStatus gives at the render; else the two panes when a
\* diff is there; else no pane.
PaneSides ==
  IF plainContent # Nothing THEN {IF selectedStatus = "D" THEN "old" ELSE "new"}
  ELSE IF diff # Nothing THEN Sides
  ELSE {}

\* The line numbers of the rows rendered on a side, NoLine for a spacer row.
RowNumbers(side) ==
  IF side \notin PaneSides THEN {}
  ELSE IF plainContent # Nothing THEN 1..Len(JsSplit(plainContent[1]))
  ELSE IF side = "old"
  THEN {diff[1].left[k].oldLineNum : k \in 1..Len(diff[1].left)}
  ELSE {diff[1].right[k].newLineNum : k \in 1..Len(diff[1].right)}

\* interface Comment
Comment(id, side, path, startLine, endLine, text, createdAt) ==
  [id |-> id, side |-> side, filePath |-> path, startLine |-> startLine,
   endLine |-> endLine, text |-> text, createdAt |-> createdAt]

\* A variant that yields its first argument.
MutMin(a, b) == a
\* Math.min
Min(a, b) == IF a <= b THEN a ELSE b

\* String.prototype.trim: without the white space at either end.
RECURSIVE TrimStart(_)
TrimStart(s) ==
  IF s # <<>> /\ Head(s) \in SpaceChars THEN TrimStart(Tail(s)) ELSE s
Trim(s) == Reverse(TrimStart(Reverse(TrimStart(s))))

\* JSON.stringify of one comment: its members in the order of creation.
StringifyComment(c) ==
  << <<"id", c.id>>, <<"side", c.side>>, <<"filePath", c.filePath>>,
     <<"startLine", c.startLine>>, <<"endLine", c.endLine>>,
     <<"text", c.text>>, <<"createdAt", c.createdAt>> >>

\* JSON.stringify(comments): the text of an array of objects.
JSONstringify(list) ==
  [kind |-> "array", items |-> [k \in 1..Len(list) |-> StringifyComment(list[k])]]

\* The place of the member named key in the text of an object.
Member(members, key) == CHOOSE k \in 1..Len(members) : members[k][1] = key

\* JSON.parse of the text of one comment.
ParseComment(members) ==
  Comment(members[Member(members, "id")][2], members[Member(members, "side")][2],
          members[Member(members, "filePath")][2], members[Member(members, "startLine")][2],
          members[Member(members, "endLine")][2], members[Member(members, "text")][2],
          members[Member(members, "createdAt")][2])

\* JSON.parse(raw): throws on a text that is no JSON, gives an array for the
\* text of an array and another value for any other JSON text.
JSONparse(raw) ==
  IF raw.kind = "garbage" THEN [threw |-> TRUE, kind |-> "null", items |-> <<>>]
  ELSE IF raw.kind = "array"
  THEN [threw |-> FALSE, kind |-> "array",
        items |-> [k \in 1..Len(raw.items) |-> ParseComment(raw.items[k])]]
  ELSE [threw |-> FALSE, kind |-> raw.kind, items |-> <<>>]

\* The empty array, as a value.
EmptyArray == [kind |-> "array", items |-> <<>>]

\* loadComments: [] when getItem throws, when raw is null or "", and when
\* JSON.parse throws; otherwise whatever JSON.parse returns.
loadComments(st) ==
  IF st.kind = "denied" THEN EmptyArray
  ELSE IF st.kind \in {"absent", "empty"} THEN EmptyArray
  ELSE IF JSONparse(st).threw THEN EmptyArray
  ELSE [kind |-> JSONparse(st).kind, items |-> JSONparse(st).items]

\* saveComments: the value setItem leaves under the key.
saveComments(list) == JSONstringify(list)

\* fileComments: the comments of the selected file, in list order.
fileComments ==
  IF selectedFile # Null
  THEN SelectSeq(comments, LAMBDA c : c.filePath = selectedFile)
  ELSE <<>>

\* The test of findComment.
MutCovers(c, side, lineNum) ==
  lineNum >= c.startLine /\ lineNum <= c.endLine
Covers(c, side, lineNum) ==
  c.side = side /\ lineNum >= c.startLine /\ lineNum <= c.endLine

\* `undefined`, the result of Array.prototype.find without a match.
NoComment == Comment(NoId, Null, Null, NoLine, NoLine, <<>>, Null)

\* findComment: the first comment of fileComments that covers the line.
findComment(side, lineNum) ==
  LET found == SelectSeq(fileComments, LAMBDA c : Covers(c, side, lineNum)) IN
  IF found = <<>> THEN NoComment ELSE Head(found)

\* A render evaluates comments.filter when a file is selected: it throws
\* when the comments state holds no array.
RenderThrows(file, kind) == file # Null /\ kind # "array"

\* The values found under the key when a session starts: nothing, the empty
\* text, a text that is no JSON, the JSON texts {} and null, a store that
\* refuses to be read, and the text of a list of comments.
\* The stored lists hold comments with their ids in list order, on any
\* file, side and lines.
Places ==
  {<<side, f.path, a, b>> : side \in Sides, f \in {ModifiedFile, AddedFile},
                            a \in LineNumbers, b \in LineNumbers}
StoredLists(longest) ==
  UNION {{[k \in 1..n |-> Comment(k, l[k][1], l[k][2], l[k][3], l[k][4], <<"x">>, t)] :
            l \in [1..n -> {q \in Places : q[3] <= q[4]}], t \in Instants} : n \in 0..longest}
StoredValues(longest) ==
  {Absent} \cup
  {[kind |-> k, items |-> <<>>] : k \in {"empty", "garbage", "object", "null", "denied"}} \cup
  {JSONstringify(l) : l \in StoredLists(longest)}

\* The first render of a session over one changed file, a modified one, and
\* any stored value.
InitStore ==
  /\ DiffIdle
  /\ TreeIdle
  /\ SynIdle
  /\ Constructed
  /\ files = <<ModifiedFile>>
  /\ pending = EmptyBag
  /\ storage \in StoredValues(MaxStored)
  /\ quotaExceeded = FALSE
  /\ nextId = 1
  /\ phase = "constructed"
  /\ outcome = "ok"

\* The first render of a new session over one changed file, an added one,
\* with room in localStorage or without.
InitReview ==
  /\ DiffIdle
  /\ TreeIdle
  /\ SynIdle
  /\ Constructed
  /\ files = <<AddedFile>>
  /\ pending = EmptyBag
  /\ storage = Absent
  /\ quotaExceeded \in BOOLEAN
  /\ nextId = 1
  /\ phase = "constructed"
  /\ outcome = "ok"

\* useEffect(() => setComments(loadComments(cwd)), [cwd])
Mount ==
  /\ phase = "constructed"
  /\ LET loaded == loadComments(storage) IN
       /\ comments' = loaded.items
       /\ commentsKind' = loaded.kind
  /\ phase' = "mounted"
  /\ outcome' = "ok"
  /\ UNCHANGED <<files, quotaExceeded, selectedFile, selectedStatus, storage, selectingSide, selectionStart,
                 selectionEnd, isSelecting, commentInput, showCommentInput, activeCommentId,
                 nextId>>
  /\ UNCHANGED <<diff, plainContent, pending>>
  /\ UNCHANGED <<diffVars, synVars, treeVars>>

\* The calls of git_file_diff in flight, each with the file it was made for.
InFlight == BagCardinality(pending)

\* onSelect of the file tree, the render that follows and, when the file or
\* its status is another than before, the load effect: it sets one of diff
\* and plainContent to null and calls git_file_diff.
onSelect(f) ==
  /\ phase = "mounted"
  /\ selectedFile' = f.path
  /\ selectedStatus' = f.status
  /\ phase' = IF RenderThrows(f.path, commentsKind) THEN "crashed" ELSE "mounted"
  /\ outcome' = "ok"
  /\ IF RenderThrows(f.path, commentsKind) \/ (f.path = selectedFile /\ f.status = selectedStatus)
     THEN UNCHANGED <<diff, plainContent, pending>>
     ELSE /\ InFlight < MaxInFlight
          /\ pending' = pending (+) SetToBag({f})
          /\ IF f.status = "A" \/ f.status = "D"
             THEN diff' = Nothing /\ UNCHANGED plainContent
             ELSE plainContent' = Nothing /\ UNCHANGED diff
  /\ UNCHANGED <<files, quotaExceeded, comments, commentsKind, storage, selectingSide, selectionStart,
                 selectionEnd, isSelecting, commentInput, showCommentInput, activeCommentId,
                 nextId>>
  /\ UNCHANGED <<diffVars, synVars, treeVars>>

\* The promise of a call of git_file_diff made for f resolves: the handler
\* of the effect that made the call sets plainContent or diff.
LoadResolves(f) ==
  /\ phase = "mounted"
  /\ BagIn(f, pending)
  /\ pending' = pending (-) SetToBag({f})
  /\ LET result == git_file_diff(f.path) IN
       IF f.status = "A" \/ f.status = "D"
       THEN /\ plainContent' = Just(IF f.status = "A" THEN result.new_content
                                                      ELSE result.old_content)
            /\ UNCHANGED diff
       ELSE /\ diff' = Just(computeDiff(result.old_content, result.new_content))
            /\ UNCHANGED plainContent
  /\ outcome' = "ok"
  /\ UNCHANGED <<files, quotaExceeded, selectedFile, selectedStatus, comments, commentsKind, storage,
                 selectingSide, selectionStart, selectionEnd, isSelecting, commentInput,
                 showCommentInput, activeCommentId, nextId, phase>>
  /\ UNCHANGED <<diffVars, synVars, treeVars>>

\* The promise rejects: the catch of the effect that made the call sets
\* plainContent or diff to null.
LoadRejects(f) ==
  /\ phase = "mounted"
  /\ BagIn(f, pending)
  /\ pending' = pending (-) SetToBag({f})
  /\ IF f.status = "A" \/ f.status = "D"
     THEN plainContent' = Nothing /\ UNCHANGED diff
     ELSE diff' = Nothing /\ UNCHANGED plainContent
  /\ outcome' = "ok"
  /\ UNCHANGED <<files, quotaExceeded, selectedFile, selectedStatus, comments, commentsKind, storage,
                 selectingSide, selectionStart, selectionEnd, isSelecting, commentInput,
                 showCommentInput, activeCommentId, nextId, phase>>
  /\ UNCHANGED <<diffVars, synVars, treeVars>>

\* handleLineMouseDown, from a rendered row that has a line number.
handleLineMouseDown(side, lineNum) ==
  /\ phase = "mounted"
  /\ lineNum \in RowNumbers(side) \ {NoLine}
  /\ isSelecting' = TRUE
  /\ selectingSide' = side
  /\ selectionStart' = lineNum
  /\ selectionEnd' = lineNum
  /\ showCommentInput' = FALSE
  /\ commentInput' = <<>>
  /\ activeCommentId' = NoId
  /\ outcome' = "ok"
  /\ UNCHANGED <<files, quotaExceeded, selectedFile, selectedStatus, comments, commentsKind, storage,
                 nextId, phase>>
  /\ UNCHANGED <<diff, plainContent, pending>>
  /\ UNCHANGED <<diffVars, synVars, treeVars>>

\* A variant that does not look at the side of the row.
MutExtends(side, lineNum) == isSelecting /\ lineNum # NoLine
\* The test of handleLineMouseEnter.
Extends(side, lineNum) == isSelecting /\ side = selectingSide /\ lineNum # NoLine

\* handleLineMouseEnter, from a rendered row with a line number or without
\* one.
handleLineMouseEnter(side, lineNum) ==
  /\ phase = "mounted"
  /\ lineNum \in RowNumbers(side)
  /\ selectionEnd' = IF Extends(side, lineNum) THEN lineNum ELSE selectionEnd
  /\ outcome' = "ok"
  /\ UNCHANGED <<files, quotaExceeded, selectedFile, selectedStatus, comments, commentsKind, storage,
                 selectingSide, selectionStart, isSelecting, commentInput,
                 showCommentInput, activeCommentId, nextId, phase>>
  /\ UNCHANGED <<diff, plainContent, pending>>
  /\ UNCHANGED <<diffVars, synVars, treeVars>>

\* handleMouseUp, the listener on the document.
handleMouseUp ==
  /\ phase = "mounted"
  /\ isSelecting' = FALSE
  /\ outcome' = "ok"
  /\ UNCHANGED <<files, quotaExceeded, selectedFile, selectedStatus, comments, commentsKind, storage,
                 selectingSide, selectionStart, selectionEnd, commentInput,
                 showCommentInput, activeCommentId, nextId, phase>>
  /\ UNCHANGED <<diff, plainContent, pending>>
  /\ UNCHANGED <<diffVars, synVars, treeVars>>

\* The condition under which the popover is rendered: in the pane of the
\* side of the selection.
PopoverShown ==
  /\ selectingSide \in PaneSides
  /\ selectionStart # NoLine
  /\ selectionEnd # NoLine
  /\ ~isSelecting

\* handleAddComment, the button of the popover.
handleAddComment ==
  /\ phase = "mounted"
  /\ PopoverShown
  /\ ~showCommentInput
  /\ showCommentInput' = TRUE
  /\ outcome' = "ok"
  /\ UNCHANGED <<files, quotaExceeded, selectedFile, selectedStatus, comments, commentsKind, storage,
                 selectingSide, selectionStart, selectionEnd, isSelecting, commentInput,
                 activeCommentId, nextId, phase>>
  /\ UNCHANGED <<diff, plainContent, pending>>
  /\ UNCHANGED <<diffVars, synVars, treeVars>>

\* onChange of the comment box.
onChange(text) ==
  /\ phase = "mounted"
  /\ PopoverShown
  /\ showCommentInput
  /\ commentInput' = text
  /\ outcome' = "ok"
  /\ UNCHANGED <<files, quotaExceeded, selectedFile, selectedStatus, comments, commentsKind, storage,
                 selectingSide, selectionStart, selectionEnd, isSelecting,
                 showCommentInput, activeCommentId, nextId, phase>>
  /\ UNCHANGED <<diff, plainContent, pending>>
  /\ UNCHANGED <<diffVars, synVars, treeVars>>

\* clearSelection, from the Cancel button and from the Escape key.
clearSelection ==
  /\ phase = "mounted"
  /\ selectingSide' = Null
  /\ selectionStart' = NoLine
  /\ selectionEnd' = NoLine
  /\ showCommentInput' = FALSE
  /\ commentInput' = <<>>
  /\ activeCommentId' = NoId
  /\ outcome' = "ok"
  /\ UNCHANGED <<files, quotaExceeded, selectedFile, selectedStatus, comments, commentsKind, storage,
                 isSelecting, nextId, phase>>
  /\ UNCHANGED <<diff, plainContent, pending>>
  /\ UNCHANGED <<diffVars, synVars, treeVars>>

\* A variant that tests the text as typed.
MutRejects(text, file, side, start, end) ==
  text = <<>> \/ file = Null \/ side = Null \/ start = NoLine \/ end = NoLine
\* The test at the head of handleSubmitComment.
Rejects(text, file, side, start, end) ==
  Trim(text) = <<>> \/ file = Null \/ side = Null \/ start = NoLine \/ end = NoLine

\* crypto.randomUUID(): the n-th id, different from all handed out before.
RandomUUID(n) == n

\* A variant that puts the new comment first.
MutWithComment(list, c) == <<c>> \o list
\* [...comments, newComment]
WithComment(list, c) == Append(list, c)

\* handleSubmitComment at the instant now; setItem throws when the quota is
\* used up, after setComments and before clearSelection.
handleSubmitComment(now) ==
  /\ phase = "mounted"
  /\ IF Rejects(commentInput, selectedFile, selectingSide, selectionStart, selectionEnd)
     THEN /\ outcome' = "returned"
          /\ UNCHANGED <<comments, storage, selectingSide, selectionStart, selectionEnd,
                         showCommentInput, commentInput, activeCommentId, nextId>>
     ELSE /\ nextId <= MaxIds
          /\ commentsKind = "array"
          /\ LET newComment == Comment(RandomUUID(nextId), selectingSide, selectedFile,
                                       Min(selectionStart, selectionEnd),
                                       Max(selectionStart, selectionEnd),
                                       Trim(commentInput), now)
                 updated == WithComment(comments, newComment)
             IN /\ comments' = updated
                /\ nextId' = nextId + 1
                /\ IF ~quotaExceeded
                   THEN /\ storage' = saveComments(updated)
                        /\ selectingSide' = Null
                        /\ selectionStart' = NoLine
                        /\ selectionEnd' = NoLine
                        /\ showCommentInput' = FALSE
                        /\ commentInput' = <<>>
                        /\ activeCommentId' = NoId
                        /\ outcome' = "ok"
                   ELSE /\ outcome' = "threw"
                        /\ UNCHANGED <<storage, selectingSide, selectionStart, selectionEnd,
                                       showCommentInput, commentInput, activeCommentId>>
  /\ UNCHANGED <<files, quotaExceeded, selectedFile, selectedStatus, commentsKind, isSelecting, phase>>
  /\ UNCHANGED <<diff, plainContent, pending>>
  /\ UNCHANGED <<diffVars, synVars, treeVars>>

\* comments.filter((c) => c.id !== id)
WithoutId(list, id) == SelectSeq(list, LAMBDA c : c.id # id)

\* handleDeleteComment: comments.filter throws when the comments state holds
\* no array; setItem throws when the quota is used up, after setComments and
\* before setActiveCommentId.
handleDeleteComment(id) ==
  /\ phase = "mounted"
  /\ IF commentsKind # "array"
     THEN /\ outcome' = "threw"
          /\ UNCHANGED <<comments, storage, activeCommentId>>
     ELSE /\ comments' = WithoutId(comments, id)
          /\ IF ~quotaExceeded
             THEN /\ storage' = saveComments(WithoutId(comments, id))
                  /\ activeCommentId' = NoId
                  /\ outcome' = "ok"
             ELSE /\ outcome' = "threw"
                  /\ UNCHANGED <<storage, activeCommentId>>
  /\ UNCHANGED <<files, quotaExceeded, selectedFile, selectedStatus, commentsKind, selectingSide,
                 selectionStart, selectionEnd, isSelecting, commentInput, showCommentInput,
                 nextId, phase>>
  /\ UNCHANGED <<diff, plainContent, pending>>
  /\ UNCHANGED <<diffVars, synVars, treeVars>>

\* handleCommentMarkerClick, from the marker of a comment shown on a row.
handleCommentMarkerClick(comment) ==
  /\ phase = "mounted"
  /\ comment # NoComment
  /\ \E side \in PaneSides :
       \E lineNum \in RowNumbers(side) \ {NoLine} : findComment(side, lineNum) = comment
  /\ activeCommentId' = IF activeCommentId = comment.id THEN NoId ELSE comment.id
  /\ selectingSide' = Null
  /\ selectionStart' = NoLine
  /\ selectionEnd' = NoLine
  /\ showCommentInput' = FALSE
  /\ commentInput' = <<>>
  /\ outcome' = "ok"
  /\ UNCHANGED <<files, quotaExceeded, selectedFile, selectedStatus, comments, commentsKind, storage,
                 isSelecting, nextId, phase>>
  /\ UNCHANGED <<diff, plainContent, pending>>
  /\ UNCHANGED <<diffVars, synVars, treeVars>>

\* The page is closed or crashes and the component is constructed again:
\* the hooks start over, localStorage stays.
Reload ==
  /\ phase \in {"mounted", "crashed"}
  /\ selectedFile' = Null
  /\ selectedStatus' = Null
  /\ comments' = <<>>
  /\ commentsKind' = "array"
  /\ selectingSide' = Null
  /\ selectionStart' = NoLine
  /\ selectionEnd' = NoLine
  /\ isSelecting' = FALSE
  /\ commentInput' = <<>>
  /\ showCommentInput' = FALSE
  /\ activeCommentId' = NoId
  /\ diff' = Nothing
  /\ plainContent' = Nothing
  /\ pending' = EmptyBag
  /\ phase' = "constructed"
  /\ outcome' = "ok"
  /\ UNCHANGED <<files, quotaExceeded, storage, nextId>>
  /\ UNCHANGED <<diffVars, synVars, treeVars>>

NextStore ==
  \/ Mount
  \/ \E k \in 1..Len(files) : onSelect(files[k])
  \/ \E k \in 1..Len(files) : LoadResolves(files[k])
  \/ \E k \in 1..Len(files) : LoadRejects(files[k])
  \/ Reload

SpecStore == InitStore /\ [][NextStore]_vars

NextReview ==
  \/ Mount
  \/ \E k \in 1..Len(files) : onSelect(files[k])
  \/ \E k \in 1..Len(files) : LoadResolves(files[k])
  \/ \E k \in 1..Len(files) : LoadRejects(files[k])
  \/ \E side \in Sides, lineNum \in LineNumbers : handleLineMouseDown(side, lineNum)
  \/ \E side \in Sides, lineNum \in LineNumbers \cup {NoLine} : handleLineMouseEnter(side, lineNum)
  \/ handleMouseUp
  \/ handleAddComment
  \/ \E text \in InputTexts : onChange(text)
  \/ clearSelection
  \/ \E now \in Instants : handleSubmitComment(now)
  \/ \E id \in CommentIds : handleDeleteComment(id)
  \/ \E k \in 1..Len(comments) : handleCommentMarkerClick(comments[k])
  \/ Reload

SpecReview == InitReview /\ [][NextReview]_vars

\* The places of the comments that cover a line of a side of the selected
\* file.
Hits(side, lineNum) ==
  {k \in 1..Len(comments) :
     /\ comments[k].filePath = selectedFile
     /\ comments[k].side = side
     /\ comments[k].startLine <= lineNum
     /\ lineNum <= comments[k].endLine}

\* C15: findComment(side, line) is the first comment in list order that is
\* of the selected file, of that side and whose lines startLine..endLine
\* hold the line, also when several do; it is none when no comment does.
C15_FindFirstInListOrder ==
  phase = "mounted" /\ commentsKind = "array" =>
    \A side \in Sides, lineNum \in 1..(MaxLine + 1) :
      IF Hits(side, lineNum) = {}
      THEN findComment(side, lineNum) = NoComment
      ELSE findComment(side, lineNum) =
             comments[CHOOSE k \in Hits(side, lineNum) : \A h \in Hits(side, lineNum) : k <= h]

\* Two comments with different lines cover one line of a side of the
\* selected file: the first is found there, none is found on the other side
\* nor on the line after the last.
C15_Witness ==
  /\ phase = "mounted"
  /\ commentsKind = "array"
  /\ selectedFile # Null
  /\ \E side \in Sides, lineNum \in LineNumbers :
       /\ Hits(side, lineNum) = {1, 2}
       /\ comments[1].startLine # comments[2].startLine
       /\ findComment(side, lineNum) = comments[1]
       /\ \A other \in Sides \ {side} : findComment(other, lineNum) = NoComment
       /\ findComment(side, MaxLine + 1) = NoComment

\* C16: a submission that goes through appends exactly one comment at the
\* end of the list, with an id that no comment of the list has, leaves the
\* comments of the list and their order as they are, and writes the new
\* list under the key of the session.
C16_SubmitAppendsOne ==
  [][\A now \in Instants :
       handleSubmitComment(now) /\ outcome' = "ok" =>
         /\ Len(comments') = Len(comments) + 1
         /\ SubSeq(comments', 1, Len(comments)) = comments
         /\ \A k \in 1..Len(comments) : comments[k].id # comments'[Len(comments')].id
         /\ loadComments(storage') = [kind |-> "array", items |-> comments']]_vars

\* Two submissions went through: the list and the store hold two comments.
C16_Witness ==
  /\ phase = "mounted"
  /\ outcome = "ok"
  /\ Len(comments) = 2
  /\ comments[1].id # comments[2].id
  /\ storage = JSONstringify(comments)
  /\ selectingSide = Null

\* C17: a submission whose text is empty once trimmed, or that is made
\* without a side, an anchor line, a focus line or a selected file, changes
\* neither the list, nor the store, nor the selection, and raises no error.
C17_RejectedSubmitChangesNothing ==
  [][\A now \in Instants :
       /\ handleSubmitComment(now)
       /\ \/ Trim(commentInput) = <<>>
          \/ selectedFile = Null
          \/ selectingSide = Null
          \/ selectionStart = NoLine
          \/ selectionEnd = NoLine
       => /\ UNCHANGED <<comments, storage, selectingSide, selectionStart, selectionEnd,
                         isSelecting>>
          /\ outcome' # "threw"]_vars

\* A submission of a text of white space only, over a live selection, has
\* returned.
C17_Witness ==
  /\ outcome = "returned"
  /\ commentInput = <<" ">>
  /\ showCommentInput
  /\ selectingSide # Null
  /\ selectionStart # NoLine
  /\ selectionEnd # NoLine
  /\ selectedFile # Null

\* The comments of a list that do not have the id, in order.
RECURSIVE Others(_, _)
Others(list, id) ==
  IF list = <<>> THEN <<>>
  ELSE IF Head(list).id = id THEN Others(Tail(list), id)
  ELSE <<Head(list)>> \o Others(Tail(list), id)

\* C18: remove(id) deletes the comments with the id and keeps the others in
\* order; when no comment has the id the list stays as it is and no error
\* is raised.
C18_RemoveById ==
  [][\A id \in CommentIds :
       handleDeleteComment(id) =>
         /\ comments' = Others(comments, id)
         /\ (\A k \in 1..Len(comments) : comments[k].id # id) =>
              comments' = comments /\ outcome' # "threw"]_vars

\* Whatever becomes of the save, remove(id) leaves the comments without the
\* id, in order, and a second remove(id) leaves that list as it is.
RemoveFiltersById ==
  [][\A id \in CommentIds :
       handleDeleteComment(id) =>
         /\ comments' = Others(comments, id)
         /\ Others(comments', id) = comments'
         /\ (\A k \in 1..Len(comments) : comments[k].id # id) => comments' = comments
         /\ outcome' = "threw" <=> quotaExceeded]_vars

\* C19: a load never fails the caller and always yields a list, the empty
\* one when the stored value is absent, unreadable, unparseable or no list.
C19_LoadYieldsList ==
  phase # "constructed" =>
    /\ phase # "crashed"
    /\ commentsKind = "array"
    /\ storage.kind # "array" => comments = <<>>

\* Whatever is stored, loadComments itself throws nothing, and it yields the
\* empty list for a value that is absent, empty, unreadable or unparseable
\* and the stored list for the text of a list.
LoadDepartsOnlyOnOtherJSON ==
  phase = "mounted" /\ selectedFile = Null =>
    /\ storage.kind \in {"absent", "empty", "denied", "garbage"} =>
         commentsKind = "array" /\ comments = <<>>
    /\ storage.kind = "array" =>
         commentsKind = "array" /\ JSONstringify(comments) = storage
    /\ storage.kind \in {"object", "null"} => commentsKind = storage.kind

\* C20: once an add or a remove is over, by its end or by a failed save, the
\* list in memory is the list stored under the key of the session.
C20_MemoryMatchesStore ==
  phase = "mounted" => loadComments(storage) = [kind |-> commentsKind, items |-> comments]

\* Every add and every remove leaves under the key the list as it was before
\* or as it is after.
StoreHoldsBeforeOrAfter ==
  [][\A id \in CommentIds, now \in Instants :
       handleDeleteComment(id) \/ handleSubmitComment(now) =>
         storage' = storage \/ storage' = JSONstringify(comments')]_vars

\* =================================================================
\* ReviewMode.tsx, the selection across file switches and loads
\* =================================================================

\* The first render of a new session over two changed files, an added one
\* and a modified one, with room in localStorage.
InitSwitch ==
  /\ DiffIdle
  /\ TreeIdle
  /\ SynIdle
  /\ Constructed
  /\ files = <<AddedFile, ModifiedFile>>
  /\ pending = EmptyBag
  /\ storage = Absent
  /\ quotaExceeded = FALSE
  /\ nextId = 1
  /\ phase = "constructed"
  /\ outcome = "ok"

NextSwitch ==
  \/ Mount
  \/ \E k \in 1..Len(files) : onSelect(files[k])
  \/ \E k \in 1..Len(files) : LoadResolves(files[k])
  \/ \E side \in Sides, lineNum \in LineNumbers : handleLineMouseDown(side, lineNum)
  \/ \E side \in Sides, lineNum \in LineNumbers \cup {NoLine} : handleLineMouseEnter(side, lineNum)
  \/ handleMouseUp
  \/ handleAddComment
  \/ \E text \in InputTexts : onChange(text)
  \/ clearSelection
  \/ \E now \in Instants : handleSubmitComment(now)

SpecSwitch == InitSwitch /\ [][NextSwitch]_vars

\* C21: right after another file is selected the selection has no side, no
\* anchor line and no focus line, the comment box is closed and its text is
\* empty, whatever the selection was before.
C21_SwitchResetsSelection ==
  [][\A k \in 1..Len(files) :
       onSelect(files[k]) /\ files[k].path # selectedFile =>
         /\ selectingSide' = Null
         /\ selectionStart' = NoLine
         /\ selectionEnd' = NoLine
         /\ ~showCommentInput'
         /\ commentInput' = <<>>]_vars

\* onSelect leaves the whole selection as it was, a drag under way and the
\* text of the comment box included.
SwitchKeepsSelection ==
  [][\A k \in 1..Len(files) :
       onSelect(files[k]) =>
         UNCHANGED <<selectingSide, selectionStart, selectionEnd, isSelecting,
                     showCommentInput, commentInput, activeCommentId>>]_vars

\* The selection is Idle and no comment text is pending, in the next state.
IdleNext ==
  /\ selectingSide' = Null
  /\ selectionStart' = NoLine
  /\ selectionEnd' = NoLine
  /\ ~isSelecting'
  /\ ~showCommentInput'
  /\ commentInput' = <<>>

\* C22: from every state, the Escape key, the Cancel button and the commit
\* of a comment from the open comment box leave the selection Idle (no
\* side, no anchor, no focus, no drag, comment box closed) and the pending
\* text empty.
C22_ReturnsToIdle ==
  [][\A now \in Instants :
       \/ clearSelection
       \/ /\ handleSubmitComment(now)
          /\ PopoverShown
          /\ showCommentInput
          /\ ~Rejects(commentInput, selectedFile, selectingSide, selectionStart, selectionEnd)
       => IdleNext]_vars

\* What does hold: clearSelection, and a commit whose save goes through,
\* clear the side, the anchor, the focus, the comment box and its text, and
\* leave the drag flag as it was; a commit whose save throws clears nothing.
ClearsAllButDrag ==
  [][\A now \in Instants :
       /\ clearSelection \/ (handleSubmitComment(now) /\ outcome' = "ok")
            => /\ selectingSide' = Null
               /\ selectionStart' = NoLine
               /\ selectionEnd' = NoLine
               /\ ~showCommentInput'
               /\ commentInput' = <<>>
               /\ UNCHANGED isSelecting
       /\ handleSubmitComment(now) /\ outcome' = "threw"
            => UNCHANGED <<selectingSide, selectionStart, selectionEnd, isSelecting,
                           showCommentInput, commentInput>>]_vars

\* The pointer events over the rows of two changed files, without comments.
NextSelect ==
  \/ Mount
  \/ \E k \in 1..Len(files) : onSelect(files[k])
  \/ \E k \in 1..Len(files) : LoadResolves(files[k])
  \/ \E side \in Sides, lineNum \in LineNumbers : handleLineMouseDown(side, lineNum)
  \/ \E side \in Sides, lineNum \in LineNumbers \cup {NoLine} : handleLineMouseEnter(side, lineNum)
  \/ handleMouseUp
  \/ clearSelection

SpecSelect == InitSwitch /\ [][NextSelect]_vars

\* C23: during a drag, a pointer-move over a row of the side of the
\* selection that has a line number changes the focus line and nothing
\* else of the selection; a pointer-move over a row of the other side, over
\* a spacer row, or without a drag, changes nothing of the selection.
C23_MoveExtendsFocusOnly ==
  [][\A side \in Sides, lineNum \in LineNumbers \cup {NoLine} :
       handleLineMouseEnter(side, lineNum) =>
         /\ UNCHANGED <<selectingSide, selectionStart, isSelecting, showCommentInput,
                        commentInput, activeCommentId>>
         /\ IF isSelecting /\ side = selectingSide /\ lineNum # NoLine
            THEN selectionEnd' = lineNum
            ELSE UNCHANGED selectionEnd]_vars

\* A drag on the new side has moved the focus away from the anchor while
\* the two panes of a diff with spacer rows are shown: moves over the old
\* side and over the spacers are there to be made.
C23_Witness ==
  /\ isSelecting
  /\ selectingSide = "new"
  /\ selectionStart # NoLine
  /\ selectionEnd # NoLine
  /\ selectionEnd # selectionStart
  /\ PaneSides = Sides
  /\ NoLine \in RowNumbers("new")
  /\ RowNumbers("old") \ {NoLine} # {}

\* =================================================================
\* ReviewMode.tsx, the load effect
\* =================================================================

\* The first render of a new session over three changed files: a modified,
\* an added and a deleted one.
InitLoad ==
  /\ DiffIdle
  /\ TreeIdle
  /\ SynIdle
  /\ Constructed
  /\ files = <<ModifiedFile, AddedFile, DeletedFile>>
  /\ pending = EmptyBag
  /\ storage = Absent
  /\ quotaExceeded = FALSE
  /\ nextId = 1
  /\ phase = "constructed"
  /\ outcome = "ok"

\* Selections of files, and the calls of git_file_diff settling in any order.
NextLoad ==
  \/ Mount
  \/ \E k \in 1..Len(files) : onSelect(files[k])
  \/ \E k \in 1..Len(files) : LoadResolves(files[k])
  \/ \E k \in 1..Len(files) : LoadRejects(files[k])

SpecLoad == InitLoad /\ [][NextLoad]_vars

\* The selected entry of the file list.
Selected == [path |-> selectedFile, status |-> selectedStatus]

\* The content area shows what a load of f gives, or nothing.
ShowsOnly(f) ==
  LET result == git_file_diff(f.path) IN
  IF f.status = "A"
  THEN diff = Nothing /\ plainContent \in {Nothing, Just(result.new_content)}
  ELSE IF f.status = "D"
  THEN diff = Nothing /\ plainContent \in {Nothing, Just(result.old_content)}
  ELSE /\ plainContent = Nothing
       /\ diff \in {Nothing, Just(computeDiff(result.old_content, result.new_content))}

\* C24: the result of a load is applied only for the file that is selected
\* when it arrives: once every load has settled, in whatever order, the
\* content shown is the one of the selected file (or none, when its load
\* failed), never the one of a file selected before.
C24_StaleResultsDropped ==
  phase = "mounted" /\ selectedFile # Null /\ pending = EmptyBag => ShowsOnly(Selected)

\* C25: from the selection of another file until the load of that file
\* settles, neither rows of a diff nor a plain content are shown.
C25_EmptyWhileLoading ==
  phase = "mounted" /\ selectedFile # Null /\ BagIn(Selected, pending) =>
    diff = Nothing /\ plainContent = Nothing

\* What the effect does on a switch: it sets to null the content of the
\* kind that the new file does not use and leaves the other as it is.
SwitchClearsOtherKind ==
  [][\A k \in 1..Len(files) :
       onSelect(files[k]) /\ files[k].path # selectedFile =>
         IF files[k].status \in {"A", "D"}
         THEN diff' = Nothing /\ UNCHANGED plainContent
         ELSE plainContent' = Nothing /\ UNCHANGED diff]_vars

\* C29: diff and plainContent are never both not null.
C29_NeverBothContents ==
  ~(diff # Nothing /\ plainContent # Nothing)

\* =================================================================
\* ReviewMode.tsx, buildTree
\* =================================================================

\* Most segments of a path of the change list.
MaxDepth == 2

\* Most files of a change list.
MaxFiles == 2

\* The names the segments of the bounded paths are taken from.
SegmentNames == {<<"a">>, <<"b">>}

\* The statuses of the files of the bounded lists.
Statuses == {"M", "A"}

\* The segments joined by "/".
RECURSIVE JoinPath(_)
JoinPath(segments) ==
  IF Len(segments) = 1 THEN segments[1]
  ELSE segments[1] \o <<"/">> \o JoinPath(Tail(segments))

\* The change list of the worked example: [{M, src/a.ts}, {A, src/b.ts}].
ExampleSrc == <<"s", "r", "c">>
ExampleA == <<"a", ".", "t", "s">>
ExampleB == <<"b", ".", "t", "s">>
ExampleFiles ==
  << [status |-> "M", path |-> JoinPath(<<ExampleSrc, ExampleA>>)],
     [status |-> "A", path |-> JoinPath(<<ExampleSrc, ExampleB>>)] >>

\* The paths of the bounded lists: relative paths of one segment or more,
\* as git reports them.
TreePaths(deepest) ==
  {JoinPath(segments) : segments \in UNION {[1..d -> SegmentNames] : d \in 1..deepest}}

\* The change lists buildTree is called with, a path listed twice included.
TreeInputs(longest, deepest) ==
  {ExampleFiles} \cup
  UNION {{[k \in 1..n |-> [status |-> st[k], path |-> ps[k]]] :
            ps \in [1..n -> TreePaths(deepest)], st \in [1..n -> Statuses]} :
           n \in 0..longest}

\* interface TreeNode; a directory has no status.
TreeNode(name, fullPath, status, children, isFile) ==
  [name |-> name, fullPath |-> fullPath, status |-> status, children |-> children,
   isFile |-> isFile]

\* current.find((n) => n.name === part && n.isFile === isFile): the place of
\* the first such node, 0 for undefined.
FindNode(current, part, isFile) ==
  LET hits == {k \in 1..Len(current) : current[k].name = part /\ current[k].isFile = isFile}
  IN IF hits = {} THEN 0 ELSE CHOOSE k \in hits : \A h \in hits : k <= h

\* A variant that puts a new node before its siblings.
MutPushNode(current, node) == <<node>> \o current
\* current.push(existing)
PushNode(current, node) == Append(current, node)

\* The inner for loop from segment k on, lines 48-65, on the list `current`.
RECURSIVE InsertParts(_, _, _, _, _)
InsertParts(current, parts, k, pathSoFar, status) ==
  LET part == parts[k]
      soFar == IF pathSoFar # <<>> THEN pathSoFar \o <<"/">> \o part ELSE part
      isFile == k = Len(parts)
      found == FindNode(current, part, isFile)
      pushed == IF found # 0 THEN current
                ELSE PushNode(current,
                              TreeNode(part, soFar, IF isFile THEN status ELSE Null, <<>>, isFile))
      at == FindNode(pushed, part, isFile)
  IN IF isFile THEN pushed
     ELSE [pushed EXCEPT ![at].children = InsertParts(@, parts, k + 1, soFar, status)]

\* One iteration of the outer for loop, lines 43-66.
InsertFile(forest, f) == InsertParts(forest, JsSplitAt(f.path, "/"), 1, <<>>, f.status)

\* buildTree as a function of its argument.
RECURSIVE buildTree(_)
buildTree(list) ==
  IF list = <<>> THEN <<>>
  ELSE InsertFile(buildTree(SubSeq(list, 1, Len(list) - 1)), list[Len(list)])

\* A call of buildTree with any change list.
InitTree ==
  /\ DiffIdle
  /\ SynIdle
  /\ RevIdle
  /\ changed \in TreeInputs(MaxFiles, MaxDepth)
  /\ root = <<>>
  /\ cursor = 1
  /\ treePc = "loop"

\* The body of `for (const f of files)` for the next file.
TreeInsert ==
  /\ treePc = "loop"
  /\ cursor <= Len(changed)
  /\ root' = InsertFile(root, changed[cursor])
  /\ cursor' = cursor + 1
  /\ UNCHANGED <<changed, treePc>>
  /\ UNCHANGED <<diffVars, synVars, revVars>>

\* return root
TreeReturn ==
  /\ treePc = "loop"
  /\ cursor > Len(changed)
  /\ treePc' = "done"
  /\ UNCHANGED <<changed, root, cursor>>
  /\ UNCHANGED <<diffVars, synVars, revVars>>

NextTree == TreeInsert \/ TreeReturn

SpecTree == InitTree /\ [][NextTree]_vars

\* The loop, step by step, builds buildTree of the files gone through.
TreeStepwiseAgrees ==
  treePc # "idle" => root = buildTree(SubSeq(changed, 1, cursor - 1))

\* ------------------------------------------------------- claim vocabulary
\* The numbers of a set, in increasing order.
RECURSIVE Ascending(_)
Ascending(set) ==
  IF set = {} THEN <<>>
  ELSE LET least == CHOOSE x \in set : \A y \in set : x <= y
       IN <<least>> \o Ascending(set \ {least})

\* The segments of the k-th path of a list.
PartsOf(list, k) == JsSplitAt(list[k].path, "/")

\* The forest that the claim describes below the directory named by the
\* segments `prefix` (the roots for no segment): one node for every
\* different next segment of the paths that go on below the directory, a
\* file node where the path ends and a directory node where it goes on, in
\* the order in which the list first comes to them; a file node carries the
\* status of its path, a directory node the forest below it.
RECURSIVE ForestBelow(_, _)
ForestBelow(list, prefix) ==
  LET d == Len(prefix)
      below == {k \in 1..Len(list) :
                  /\ Len(PartsOf(list, k)) > d
                  /\ SubSeq(PartsOf(list, k), 1, d) = prefix}
      EndsHere(k) == Len(PartsOf(list, k)) = d + 1
      SameChild(k, h) ==
        PartsOf(list, k)[d + 1] = PartsOf(list, h)[d + 1] /\ EndsHere(k) = EndsHere(h)
      firsts == Ascending({k \in below : \A h \in below : SameChild(k, h) => k <= h})
  IN [n \in 1..Len(firsts) |->
        LET k == firsts[n]
            name == PartsOf(list, k)[d + 1]
        IN IF EndsHere(k)
           THEN TreeNode(name, JoinPath(Append(prefix, name)), list[k].status, <<>>, TRUE)
           ELSE TreeNode(name, JoinPath(Append(prefix, name)), Null,
                         ForestBelow(list, Append(prefix, name)), FALSE)]

\* The number of file nodes of a forest.
RECURSIVE FileNodes(_)
FileNodes(forest) ==
  IF forest = <<>> THEN 0
  ELSE (IF Head(forest).isFile THEN 1 ELSE FileNodes(Head(forest).children))
       + FileNodes(Tail(forest))

\* The forest of the worked example: one root directory src with the file
\* children a.ts (M) and b.ts (A).
ExampleForest ==
  << TreeNode(ExampleSrc, ExampleSrc, Null,
              << TreeNode(ExampleA, JoinPath(<<ExampleSrc, ExampleA>>), "M", <<>>, TRUE),
                 TreeNode(ExampleB, JoinPath(<<ExampleSrc, ExampleB>>), "A", <<>>, TRUE) >>,
              FALSE) >>

\* C26: buildTree returns the forest in which every path of the list has
\* exactly one file node, reached from a root through directory nodes named
\* by the segments of the path and carrying the status of the path (the
\* one of its first entry, should the list hold the path twice), with the
\* children of every directory, and the roots, in the order of their first
\* appearance in the list; buildTree([]) is the empty forest, and the list
\* [{M, src/a.ts}, {A, src/b.ts}] gives one root directory src with the
\* file children a.ts (M) and b.ts (A).
C26_TreeOfPaths ==
  /\ treePc = "done" =>
       /\ root = ForestBelow(changed, <<>>)
       /\ FileNodes(root) = Cardinality({changed[k].path : k \in 1..Len(changed)})
       /\ changed = <<>> => root = <<>>
       /\ changed = ExampleFiles => root = ExampleForest
  /\ buildTree(<<>>) = <<>>

\* The tree of two files of one directory, listed in the order b, a: the
\* directory holds b first, a second.
C26_Witness ==
  /\ treePc = "done"
  /\ Len(changed) = 2
  /\ Len(root) = 1
  /\ ~root[1].isFile
  /\ Len(root[1].children) = 2
  /\ root[1].children[1].name = <<"b">>
  /\ root[1].children[2].name = <<"a">>
  /\ root[1].children[1].status # root[1].children[2].status

\* =================================================================
\* computeDiff, the size of the edit script
\* =================================================================

\* The lines of a text at the places of a set, in order.
Pick(lines, places) ==
  LET order == Ascending(places) IN [k \in 1..Len(order) |-> lines[order[k]]]

\* The lines a, in order, are among the lines b.
RECURSIVE IsSubsequence(_, _)
IsSubsequence(a, b) ==
  IF a = <<>> THEN TRUE
  ELSE IF b = <<>> THEN FALSE
  ELSE IF Head(a) = Head(b) THEN IsSubsequence(Tail(a), Tail(b))
  ELSE IsSubsequence(a, Tail(b))

\* The lengths of the common subsequences of two line arrays.
CommonLengths(ol, nl) ==
  {Cardinality(places) : places \in {q \in SUBSET (1..Len(ol)) : IsSubsequence(Pick(ol, q), nl)}}

\* The length of a longest common subsequence.
LongestCommon(ol, nl) ==
  CHOOSE c \in CommonLengths(ol, nl) : \A e \in CommonLengths(ol, nl) : e <= c

\* C27: the edit script is minimal: the Unchanged rows are as many as the
\* lines of a longest common subsequence of the two line arrays, the Added
\* and the Removed rows together are m + n - 2 * LCS, and no common
\* subsequence, that is no alignment, leaves fewer rows changed.
C27_EditScriptMinimal ==
  pc = "done" =>
    LET res == [left |-> left, right |-> right]
        m == Len(oldLines)
        n == Len(newLines)
        changedRows == CountType(res, "added") + CountType(res, "removed")
    IN /\ CountType(res, "unchanged") = LongestCommon(oldLines, newLines)
       /\ changedRows = m + n - 2 * LongestCommon(oldLines, newLines)
       /\ \A c \in CommonLengths(oldLines, newLines) : changedRows <= m + n - 2 * c
       /\ CountType(res, "added") = n - LongestCommon(oldLines, newLines)
       /\ CountType(res, "removed") = m - LongestCommon(oldLines, newLines)

\* The finished diff of two texts of three lines that share two lines which
\* frame a replaced line: two Unchanged rows and two changed ones.
C27_Witness ==
  /\ pc = "done"
  /\ Len(oldLines) = 3
  /\ Len(newLines) = 3
  /\ LongestCommon(oldLines, newLines) = 2
  /\ oldLines # newLines
  /\ Len(left) = 4

\* =================================================================
\* ReviewMode.tsx, the comments that a session makes
\* =================================================================

\* A comment has positive line numbers in order and a text that is not
\* empty and has no white space at either end.
WellFormed(c) ==
  /\ c.startLine >= 1
  /\ c.startLine <= c.endLine
  /\ c.text # <<>>
  /\ c.text[1] \notin SpaceChars
  /\ c.text[Len(c.text)] \notin SpaceChars

\* C28: after any sequence of pointer events, submissions, cancels, escapes
\* and deletes, every comment of the list and of the store has positive
\* line numbers with startLine <= endLine and a text that is not empty and
\* is trimmed; a comment is made with the smaller of anchor and focus as
\* its startLine and the larger as its endLine, also after a drag upwards.
C28_CommentsWellFormed ==
  /\ [](phase = "mounted" =>
          /\ \A k \in 1..Len(comments) : WellFormed(comments[k])
          /\ \A k \in 1..Len(loadComments(storage).items) :
               WellFormed(loadComments(storage).items[k]))
  /\ [][\A now \in Instants :
          handleSubmitComment(now) /\ Len(comments') = Len(comments) + 1 =>
            LET made == comments'[Len(comments')] IN
              /\ made.startLine \in {selectionStart, selectionEnd}
              /\ made.endLine \in {selectionStart, selectionEnd}
              /\ made.startLine <= selectionStart /\ made.startLine <= selectionEnd
              /\ made.endLine >= selectionStart /\ made.endLine >= selectionEnd]_vars

\* A comment was made from a drag upwards, from line 2 to line 1, and a
\* text typed with a space in front: the selection is still there because
\* the save threw, the comment has the lines 1 to 2 and the text trimmed.
C28_Witness ==
  /\ phase = "mounted"
  /\ outcome = "threw"
  /\ selectionStart = 2
  /\ selectionEnd = 1
  /\ commentInput = <<" ", "x">>
  /\ Len(comments) >= 1
  /\ comments[Len(comments)].startLine = 1
  /\ comments[Len(comments)].endLine = 2
  /\ comments[Len(comments)].text = <<"x">>

\* The line numbers of the rows that a file shows on a side once loaded:
\* the lines of the plain pane of an added or a deleted file, the numbered
\* rows of the pane of the side of the diff of a modified file.
SideLines(f, side) ==
  LET result == git_file_diff(f.path)
      rows == computeDiff(result.old_content, result.new_content)
  IN IF f.status = "A"
     THEN IF side = "new" THEN 1..Len(JsSplit(result.new_content)) ELSE {}
     ELSE IF f.status = "D"
     THEN IF side = "old" THEN 1..Len(JsSplit(result.old_content)) ELSE {}
     ELSE IF side = "old"
     THEN {rows.left[k].oldLineNum : k \in 1..Len(rows.left)} \ {NoLine}
     ELSE {rows.right[k].newLineNum : k \in 1..Len(rows.right)} \ {NoLine}

\* C30: every comment is anchored to the file and the side its selection
\* was made on: its file is the one whose rows were shown at the
\* pointer-down, so that its lines startLine..endLine are line numbers of
\* that side of that file.
C30_CommentsAnchored ==
  phase = "mounted" =>
    \A k \in 1..Len(comments) :
      \E n \in 1..Len(files) :
        /\ files[n].path = comments[k].filePath
        /\ comments[k].startLine..comments[k].endLine \subseteq SideLines(files[n], comments[k].side)

\* What holds: a comment gets the file selected when it is submitted, and
\* the side and the lines of the selection as they are then, wherever the
\* selection was made.
AnchoredAtSubmit ==
  [][\A now \in Instants :
       handleSubmitComment(now) /\ Len(comments') = Len(comments) + 1 =>
         LET made == comments'[Len(comments')] IN
           /\ made.filePath = selectedFile
           /\ made.side = selectingSide
           /\ {made.startLine, made.endLine} = {selectionStart, selectionEnd}]_vars

\* The selection of line 2 of b.rs, with its comment box open and a text
\* typed, shown over the loaded diff of a.ts, which has one line a side.
CarriedSelection ==
  /\ selectedFile = ModifiedFile.path
  /\ diff # Nothing
  /\ pending = EmptyBag
  /\ PopoverShown
  /\ showCommentInput
  /\ Trim(commentInput) # <<>>
  /\ selectionStart = 2
  /\ selectionEnd = 2

====
